---- MODULE Spec2Model ----
(***************************************************************************)
(* A model of the key-sequence resolution engine of phosphor-keymap: the   *)
(* KeymapManager of src/src/manager.ts with the keystroke functions of     *)
(* src/src/keystrokes.ts.  The host's timer queue and a two-element DOM    *)
(* fixture stand for the environment the manager runs in.                  *)
(***************************************************************************)
EXTENDS Integers, Sequences, FiniteSets, TLC

VARIABLES
  _bindings,    \* KeymapManager._bindings: the registered ex bindings, in order
  _sequence,    \* KeymapManager._sequence: the keystrokes typed so far
  _exactData,   \* KeymapManager._exactData: <<>> for null, else <<[exact, event]>>
  _timer,       \* KeymapManager._timer: 0, or the handle of the armed timeout
  scheduled,    \* the host's outstanding setTimeout handles
  handles,      \* the exbArray captured by each disposable returned by add
  bindingId,    \* the module's ex binding id counter (src/unnamed/part_000)
  invoked,      \* observation: the bindings whose handler the last operation called
  prevented,    \* observation: the last operation called event.preventDefault()
  lastOp,       \* observation: the name of the last operation
  path,         \* observation: the branch through which the last operation returned
  typed,        \* observation: the buffer as the last keydown matched it
  other,        \* the fields of a second KeymapManager, <<>> when there is none
  _scopeSequenceMap, \* src/src/index.ts: scope -> key sequence -> commands
  _scopeCommandMap,  \* src/src/index.ts: scope -> command -> keys
  listening,    \* src/src/index.ts: the manager is a keydown listener of document
  _timeoutState,     \* src/src/index.ts: the pending chord prefix, "" for none
  _timeoutObj,  \* src/src/index.ts: 0, or the handle of the armed timeout
  input,        \* the arguments of the function a specification applies
  output        \* its outcome: <<>> before the call, then <<result>>

vars == <<_bindings, _sequence, _exactData, _timer, scheduled, handles,
          bindingId, invoked, prevented, lastOp, path, typed, other,
          _scopeSequenceMap, _scopeCommandMap, listening, _timeoutState,
          _timeoutObj, input, output>>

\* The state of the signal-based manager of src/src/index.ts.
signalVars ==
  <<_scopeSequenceMap, _scopeCommandMap, listening, _timeoutState, _timeoutObj>>

\* The arguments and the outcome of a function applied on its own.
callVars == <<input, output>>

-----------------------------------------------------------------------------
(* Bounds of the model. *)

\* The number of ex bindings created over the life of one manager.
MaxBindings == 3

\* The number of bindings handed to one add call.
MaxBatch == 2

\* The number of add calls over the life of one manager.
MaxAdds == 2

\* The length of the keystroke buffers the match functions are tried on.
MaxBuffer == 3

\* The number of pieces of the keystroke texts handed to normalizeKeystroke.
MaxPieces == 5

-----------------------------------------------------------------------------
(* The DOM fixture: element 2 is the child of element 1, whose id is "out"  *)
(* and which has no parent element.                                        *)

NoElement == 0

Elements == {1, 2}

parentElement(elem) == IF elem = 2 THEN 1 ELSE NoElement

Selectors == {"*", "#out"}

\* Element.prototype.matches on the fixture.
matchesSelector(elem, selector) ==
  CASE selector = "*"    -> elem \in Elements
    [] selector = "#out" -> elem = 1
    [] OTHER             -> FALSE

\* clear-cut: syntactic validity of a selector.
isSelectorValid(selector) == selector \in Selectors

\* clear-cut: an id counts 100, the universal selector 0.
calculateSpecificity(selector) ==
  CASE selector = "#out" -> 100
    [] OTHER             -> 0

-----------------------------------------------------------------------------
(* Keystrokes (src/src/keystrokes.ts). *)

\* The entries of KEY_CODE_MAP the model types with.
KEY_CODE_MAP == (65 :> "a") @@ (66 :> "b") @@ (189 :> "-")

\* KEY_CODE_MAP_INV is populated from KEY_CODE_MAP.
KEY_CODE_MAP_INV == { KEY_CODE_MAP[c] : c \in DOMAIN KEY_CODE_MAP }

\* KEY_CODE_MAP_INV is created by the object literal {}: besides its own
\* properties it inherits those of Object.prototype.  These are the
\* inherited names that toLowerCase leaves as they are.
ObjectPrototype == {"constructor", "__proto__"}

\* token in KEY_CODE_MAP_INV: the in operator looks a name up on the object
\* and on its prototype chain.
inKeyCodeMapInv(token) ==
  token \in KEY_CODE_MAP_INV \/ token \in ObjectPrototype

keyForKeyCode(code) ==
  IF code \in DOMAIN KEY_CODE_MAP THEN KEY_CODE_MAP[code] ELSE ""

keystrokeForKeydownEvent(event) ==
  LET p1 == IF event.ctrlKey THEN "ctrl-" ELSE ""
      p2 == IF event.altKey THEN p1 \o "alt-" ELSE p1
      p3 == IF event.shiftKey THEN p2 \o "shift-" ELSE p2
      p4 == IF event.metaKey THEN p3 \o "meta-" ELSE p3
  IN  p4 \o keyForKeyCode(event.keyCode)

\* A keystroke text is written as the list of its pieces: a piece is one
\* separator character ("-" or "+") or a run of characters holding neither.
\* The text is the concatenation of its pieces.
RECURSIVE join(_)
join(pieces) ==
  IF pieces = <<>> THEN "" ELSE Head(pieces) \o join(Tail(pieces))

\* String.prototype.toLowerCase on the pieces the model writes.
toLowerCase(piece) ==
  IF piece = "Ctrl" THEN "ctrl"
  ELSE IF piece = "ALT" THEN "alt"
  ELSE IF piece = "A" THEN "a"
  ELSE piece

\* keystroke.toLowerCase().split(/(sep)/).filter(s => !!s): the text is cut
\* at every separator character, the separators are kept as tokens, and
\* the characters between two separators form one token.
RECURSIVE split(_, _)
split(pieces, sep) ==
  IF pieces = <<>> THEN <<>>
  ELSE
    LET head == toLowerCase(Head(pieces))
        rest == split(Tail(pieces), sep)
    IN  IF head # sep /\ rest # <<>> /\ Head(rest) # sep
          THEN << head \o Head(rest) >> \o Tail(rest)
        ELSE << head >> \o rest

\* The loop of normalizeKeystroke over the tokens, from token i on.
\* st holds the loop's locals; st.err records a throwKeystrokeError.
RECURSIVE normalizeLoop(_, _, _)
normalizeLoop(tokens, i, st) ==
  IF st.err \/ i > Len(tokens) THEN st
  ELSE
    LET token == tokens[i]
        n == Len(tokens)
        fail == [st EXCEPT !.err = TRUE]
        next ==
          IF token = "-" THEN
            IF st.key # "" THEN fail
            ELSE IF i = n /\ (n = 1 \/ st.sep) THEN [st EXCEPT !.key = token]
            ELSE IF ~st.sep /\ (st.alt \/ st.ctrl \/ st.meta \/ st.shift)
              THEN [st EXCEPT !.sep = TRUE]
            ELSE fail
          ELSE IF token = "alt" THEN
            IF st.alt \/ st.key # "" THEN fail
            ELSE [st EXCEPT !.alt = TRUE, !.sep = FALSE]
          ELSE IF token = "ctrl" THEN
            IF st.ctrl \/ st.key # "" THEN fail
            ELSE [st EXCEPT !.ctrl = TRUE, !.sep = FALSE]
          ELSE IF token = "meta" THEN
            IF st.meta \/ st.key # "" THEN fail
            ELSE [st EXCEPT !.meta = TRUE, !.sep = FALSE]
          ELSE IF token = "shift" THEN
            IF st.shift \/ st.key # "" THEN fail
            ELSE [st EXCEPT !.shift = TRUE, !.sep = FALSE]
          ELSE
            IF st.key # "" \/ ~inKeyCodeMapInv(token) THEN fail
            ELSE [st EXCEPT !.key = token, !.sep = FALSE]
    IN  normalizeLoop(tokens, i + 1, next)

\* The result text written with the separator of the '+' dialect.
renderKeystroke_plus(st) ==
  (IF st.ctrl THEN <<"ctrl", "+">> ELSE <<>>)
  \o (IF st.alt THEN <<"alt", "+">> ELSE <<>>)
  \o (IF st.shift THEN <<"shift", "+">> ELSE <<>>)
  \o (IF st.meta THEN <<"meta", "+">> ELSE <<>>)
  \o << st.key >>

\* The text put together with alt before ctrl.
renderKeystroke_altFirst(st) ==
  (IF st.alt THEN <<"alt", "-">> ELSE <<>>)
  \o (IF st.ctrl THEN <<"ctrl", "-">> ELSE <<>>)
  \o (IF st.shift THEN <<"shift", "-">> ELSE <<>>)
  \o (IF st.meta THEN <<"meta", "-">> ELSE <<>>)
  \o << st.key >>

\* The result text normalizeKeystroke builds from the loop's locals.
renderKeystroke(st) ==
  (IF st.ctrl THEN <<"ctrl", "-">> ELSE <<>>)
  \o (IF st.alt THEN <<"alt", "-">> ELSE <<>>)
  \o (IF st.shift THEN <<"shift", "-">> ELSE <<>>)
  \o (IF st.meta THEN <<"meta", "-">> ELSE <<>>)
  \o << st.key >>

\* The locals of normalizeKeystroke before its loop.
NoTokenSeen ==
  [key |-> "", sep |-> FALSE, alt |-> FALSE, ctrl |-> FALSE,
   meta |-> FALSE, shift |-> FALSE, err |-> FALSE]

\* normalizeKeystroke validating the text and returning it, lower-cased,
\* with its modifiers where they were written.
normalizeKeystroke_asWritten(keystroke) ==
  LET tokens == split(keystroke, "-")
      st == normalizeLoop(tokens, 1, NoTokenSeen)
  IN  IF st.err \/ st.key = ""
        THEN [ok |-> FALSE, value |-> "", pieces |-> <<>>]
      ELSE [ok |-> TRUE, value |-> join(tokens), pieces |-> tokens]

\* normalizeKeystroke: [ok |-> FALSE] stands for the thrown error; value is
\* the returned text and pieces the same text piece by piece.
normalizeKeystroke(keystroke) ==
  LET st == normalizeLoop(split(keystroke, "-"), 1, NoTokenSeen)
      pieces == renderKeystroke(st)
  IN  IF st.err \/ st.key = ""
        THEN [ok |-> FALSE, value |-> "", pieces |-> <<>>]
      ELSE [ok |-> TRUE, value |-> join(pieces), pieces |-> pieces]

\* The loop of the normalizeKeystroke of src/unnamed/part_006, whose
\* separator is "+" and whose modifiers are alt, cmd, ctrl and shift.
RECURSIVE normalizeLoopPlus(_, _, _)
normalizeLoopPlus(tokens, i, st) ==
  IF st.err \/ i > Len(tokens) THEN st
  ELSE
    LET token == tokens[i]
        fail == [st EXCEPT !.err = TRUE]
        next ==
          IF token = "+" THEN
            IF st.sep \/ st.key # ""
               \/ ~(st.alt \/ st.cmd \/ st.ctrl \/ st.shift) THEN fail
            ELSE [st EXCEPT !.sep = TRUE]
          ELSE IF token = "alt" THEN
            IF st.alt \/ st.key # "" THEN fail
            ELSE [st EXCEPT !.alt = TRUE, !.sep = FALSE]
          ELSE IF token = "cmd" THEN
            IF st.cmd \/ st.key # "" THEN fail
            ELSE [st EXCEPT !.cmd = TRUE, !.sep = FALSE]
          ELSE IF token = "ctrl" THEN
            IF st.ctrl \/ st.key # "" THEN fail
            ELSE [st EXCEPT !.ctrl = TRUE, !.sep = FALSE]
          ELSE IF token = "shift" THEN
            IF st.shift \/ st.key # "" THEN fail
            ELSE [st EXCEPT !.shift = TRUE, !.sep = FALSE]
          ELSE
            IF st.key # "" \/ token = "meta" \/ ~inKeyCodeMapInv(token)
              THEN fail
            ELSE [st EXCEPT !.key = token, !.sep = FALSE]
    IN  normalizeLoopPlus(tokens, i + 1, next)

\* The normalizeKeystroke of src/unnamed/part_006.
normalizeKeystrokePlus(keystroke) ==
  LET st == normalizeLoopPlus(split(keystroke, "+"), 1,
              [key |-> "", sep |-> FALSE, alt |-> FALSE, cmd |-> FALSE,
               ctrl |-> FALSE, shift |-> FALSE, err |-> FALSE])
      pieces == (IF st.ctrl THEN <<"ctrl", "+">> ELSE <<>>)
                \o (IF st.alt THEN <<"alt", "+">> ELSE <<>>)
                \o (IF st.shift THEN <<"shift", "+">> ELSE <<>>)
                \o (IF st.cmd THEN <<"cmd", "+">> ELSE <<>>)
                \o << st.key >>
  IN  IF st.err \/ st.key = ""
        THEN [ok |-> FALSE, value |-> "", pieces |-> <<>>]
      ELSE [ok |-> TRUE, value |-> join(pieces), pieces |-> pieces]

-----------------------------------------------------------------------------
(* Keystrokes validated against a keyboard layout (src/src/keyboard.ts).    *)

\* keystroke.trim().split(/\s+/) on a text whose pieces are the space
\* character or a run of characters without white space: the runs between
\* white space, and one empty token for a text without any.
RECURSIVE splitRuns(_, _)
splitRuns(pieces, run) ==
  IF pieces = <<>> THEN (IF run = "" THEN <<>> ELSE << run >>)
  ELSE IF Head(pieces) = " "
    THEN (IF run = "" THEN <<>> ELSE << run >>) \o splitRuns(Tail(pieces), "")
  ELSE splitRuns(Tail(pieces), run \o Head(pieces))

splitWhitespace(pieces) ==
  IF splitRuns(pieces, "") = <<>> THEN << "" >> ELSE splitRuns(pieces, "")

\* layout.isValidKeycap(keycap), for a layout given by its keycaps().
isValidKeycap(layout, keycap) == keycap \in layout

\* The loop of normalizeKeystroke(keystroke, layout) from token i on.
\* st.err holds the message of the error thrown (without the quotes around
\* the modifier name), "" for none.
RECURSIVE normalizeLayoutLoop(_, _, _, _, _)
normalizeLayoutLoop(tokens, layout, IS_MAC, i, st) ==
  IF st.err # "" \/ i > Len(tokens) THEN st
  ELSE
    LET token == IF tokens[i] = "Accel"
                   THEN (IF IS_MAC THEN "Cmd" ELSE "Ctrl")
                 ELSE tokens[i]
        fail(message) == [st EXCEPT !.err = message]
        next ==
          IF token = "Alt" THEN
            IF st.alt THEN fail("Alt specified in duplicate")
            ELSE IF st.keycap # "" THEN fail("Alt follows primary key")
            ELSE [st EXCEPT !.alt = TRUE]
          ELSE IF token = "Cmd" THEN
            IF st.cmd THEN fail("Cmd specified in duplicate")
            ELSE IF st.keycap # "" THEN fail("Cmd follows primary key")
            ELSE IF ~IS_MAC THEN fail("Cmd used on non-Mac platform")
            ELSE [st EXCEPT !.cmd = TRUE]
          ELSE IF token = "Ctrl" THEN
            IF st.ctrl THEN fail("Ctrl specified in duplicate")
            ELSE IF st.keycap # "" THEN fail("Ctrl follows primary key")
            ELSE [st EXCEPT !.ctrl = TRUE]
          ELSE IF token = "Shift" THEN
            IF st.shift THEN fail("Shift specified in duplicate")
            ELSE IF st.keycap # "" THEN fail("Shift follows primary key")
            ELSE [st EXCEPT !.shift = TRUE]
          ELSE
            IF st.keycap # "" THEN fail("primary key specified in duplicate")
            ELSE IF ~isValidKeycap(layout, token)
              THEN fail("invalid primary key")
            ELSE [st EXCEPT !.keycap = token]
    IN  normalizeLayoutLoop(tokens, layout, IS_MAC, i + 1, next)

\* normalizeKeystroke(keystroke, layout) on a platform that is a Mac or is
\* not: err is the message of the error thrown, "" when value is returned.
normalizeKeystrokeLayout(keystroke, layout, IS_MAC) ==
  LET st == normalizeLayoutLoop(splitWhitespace(keystroke), layout, IS_MAC, 1,
              [keycap |-> "", alt |-> FALSE, cmd |-> FALSE, ctrl |-> FALSE,
               shift |-> FALSE, err |-> ""])
      m1 == IF st.cmd THEN "Cmd " ELSE ""
      m2 == IF st.ctrl THEN m1 \o "Ctrl " ELSE m1
      m3 == IF st.alt THEN m2 \o "Alt " ELSE m2
      m4 == IF st.shift THEN m3 \o "Shift " ELSE m3
  IN  IF st.err # "" THEN [err |-> st.err, value |-> ""]
      ELSE IF st.keycap # ""
        THEN [err |-> "primary key not specified", value |-> ""]
      ELSE [err |-> "", value |-> m4 \o st.keycap]

-----------------------------------------------------------------------------
(* Inputs. *)

\* The keystroke texts "a" and "b".
KeyA == <<"a">>
KeyB == <<"b">>

\* The text "foo" names no key of the key table.
KeyFoo == <<"foo">>

\* The IKeyBinding objects handed to add: the keystroke "a" on the universal
\* and on the id selector, the chord "a b" on the id selector and the chord
\* "a b a" on the universal selector.
BindingInputs ==
  { [selector |-> "*",    sequence |-> <<KeyA>>,             handler |-> "fn"],
    [selector |-> "#out", sequence |-> <<KeyA>>,             handler |-> "fn"],
    [selector |-> "#out", sequence |-> <<KeyA, KeyB>>,       handler |-> "fn"],
    [selector |-> "*",    sequence |-> <<KeyA, KeyB, KeyA>>, handler |-> "fn"] }

\* IKeyBinding objects createExBinding rejects: a selector that is not valid
\* CSS, an empty sequence, a null handler (the empty string stands for null)
\* and a keystroke that normalizeKeystroke throws on.
InvalidInputs ==
  { [selector |-> "##",   sequence |-> <<KeyA>>,             handler |-> "fn"],
    [selector |-> "*",    sequence |-> <<>>,                 handler |-> "fn"],
    [selector |-> "*",    sequence |-> <<KeyA>>,             handler |-> ""],
    [selector |-> "*",    sequence |-> <<KeyA, KeyFoo>>,     handler |-> "fn"] }

\* The inputs of the add calls that mix valid and invalid bindings: the
\* keystroke "a", the chord "a b" and the four invalid bindings.
MixedInputs ==
  { [selector |-> "*",    sequence |-> <<KeyA>>,             handler |-> "fn"],
    [selector |-> "#out", sequence |-> <<KeyA, KeyB>>,       handler |-> "fn"] }
  \cup InvalidInputs

Batches ==
  UNION { [1..n -> BindingInputs] : n \in 1..MaxBatch }

MixedBatches ==
  UNION { [1..n -> MixedInputs] : n \in 1..MaxBatch }

\* The keydown events delivered to processKeydownEvent, with no modifier
\* held: the keys "a" and "b" and a key code outside the key table.  The
\* listener sits on currentTarget, the target or one of its ancestors.
KeydownEvents ==
  { ev \in [keyCode : {65, 66, 0}, ctrlKey : {FALSE}, altKey : {FALSE},
            shiftKey : {FALSE}, metaKey : {FALSE},
            target : Elements, currentTarget : Elements] :
      ev.currentTarget <= ev.target }

-----------------------------------------------------------------------------
(* Pure functions of src/src/manager.ts. *)

RECURSIVE mapNormalize(_)
mapNormalize(seq) ==
  IF seq = <<>> THEN <<>>
  ELSE <<normalizeKeystroke(Head(seq))>> \o mapNormalize(Tail(seq))

\* createExBinding without the test of the handler.
createExBinding_anyHandler(binding, obj, id) ==
  LET norm == mapNormalize(binding.sequence) IN
  IF ~isSelectorValid(binding.selector) THEN <<>>
  ELSE IF Len(binding.sequence) = 0 THEN <<>>
  ELSE IF \E i \in 1..Len(norm) : ~norm[i].ok THEN <<>>
  ELSE << [obj |-> obj,
           id |-> id,
           sequence |-> [i \in 1..Len(norm) |-> norm[i].value],
           handler |-> binding.handler,
           selector |-> binding.selector,
           specificity |-> calculateSpecificity(binding.selector)] >>

\* createExBinding: <<>> for null, else <<the ex binding>>.  obj is the
\* identity of the object literal the function returns, id the value of
\* bindingId the id-carrying createExBinding stores in it.
createExBinding(binding, obj, id) ==
  LET norm == mapNormalize(binding.sequence) IN
  IF ~isSelectorValid(binding.selector) THEN <<>>
  ELSE IF Len(binding.sequence) = 0 THEN <<>>
  ELSE IF binding.handler = "" THEN <<>>
  ELSE IF \E i \in 1..Len(norm) : ~norm[i].ok THEN <<>>
  ELSE << [obj |-> obj,
           id |-> id,
           sequence |-> [i \in 1..Len(norm) |-> norm[i].value],
           handler |-> binding.handler,
           selector |-> binding.selector,
           specificity |-> calculateSpecificity(binding.selector)] >>

SequenceMatchNone == 0
SequenceMatchExact == 1
SequenceMatchPartial == 2

\* matchSequence without the loop that compares the keystrokes.
matchSequence_lengthOnly(exb, sequence) ==
  IF Len(exb.sequence) < Len(sequence) THEN SequenceMatchNone
  ELSE IF Len(exb.sequence) > Len(sequence) THEN SequenceMatchPartial
  ELSE SequenceMatchExact

\* matchSequence without its last length test: a binding of which the
\* buffer is a proper prefix counts as an exact match.
matchSequence_noPartial(exb, sequence) ==
  IF Len(exb.sequence) < Len(sequence) THEN SequenceMatchNone
  ELSE IF \E i \in 1..Len(sequence) : exb.sequence[i] # sequence[i]
    THEN SequenceMatchNone
  ELSE SequenceMatchExact

matchSequence(exb, sequence) ==
  IF Len(exb.sequence) < Len(sequence) THEN SequenceMatchNone
  ELSE IF \E i \in 1..Len(sequence) : exb.sequence[i] # sequence[i]
    THEN SequenceMatchNone
  ELSE IF Len(exb.sequence) > Len(sequence) THEN SequenceMatchPartial
  ELSE SequenceMatchExact

\* findSequenceMatches counting as matches only the bindings whose selector
\* matches every element.
findSequenceMatches_scoped(bindings, sequence) ==
  [exact   |-> SelectSeq(bindings,
                 LAMBDA b : /\ matchSequence(b, sequence) = SequenceMatchExact
                            /\ b.selector = "*"),
   partial |-> SelectSeq(bindings,
                 LAMBDA b : /\ matchSequence(b, sequence) = SequenceMatchPartial
                            /\ b.selector = "*")]

findSequenceMatches(bindings, sequence) ==
  [exact   |-> SelectSeq(bindings,
                 LAMBDA b : matchSequence(b, sequence) = SequenceMatchExact),
   partial |-> SelectSeq(bindings,
                 LAMBDA b : matchSequence(b, sequence) = SequenceMatchPartial)]

\* The loop of findBestMatch from index i on; result is <<>> for undefined.
RECURSIVE findBestMatchLoop(_, _, _, _)
findBestMatchLoop(bindings, target, i, result) ==
  IF i > Len(bindings) THEN result
  ELSE
    LET exb == bindings[i] IN
    IF ~matchesSelector(target, exb.selector)
      THEN findBestMatchLoop(bindings, target, i + 1, result)
    ELSE IF result = <<>> \/ exb.specificity >= result[1].specificity
      THEN findBestMatchLoop(bindings, target, i + 1, <<exb>>)
    ELSE findBestMatchLoop(bindings, target, i + 1, result)

\* findBestMatch comparing with > where the code has >=: of the candidates
\* of equal specificity the first registered wins.
findBestMatch_firstWins(bindings, target) ==
  LET RECURSIVE loop(_, _)
      loop(i, result) ==
        IF i > Len(bindings) THEN result
        ELSE IF ~matchesSelector(target, bindings[i].selector)
          THEN loop(i + 1, result)
        ELSE IF result = <<>> \/ bindings[i].specificity > result[1].specificity
          THEN loop(i + 1, <<bindings[i]>>)
        ELSE loop(i + 1, result)
  IN  loop(1, <<>>)

findBestMatch(bindings, target) == findBestMatchLoop(bindings, target, 1, <<>>)

\* dispatchBindings choosing the best match over all the elements of the
\* walk at once instead of element by element.
dispatchWalk_bestOfChain(bindings, target, currentTarget) ==
  LET RECURSIVE walk(_)
      walk(t) == IF t = NoElement THEN {}
                 ELSE IF t = currentTarget THEN {t}
                 ELSE {t} \cup walk(parentElement(t))
      RECURSIVE best(_, _)
      best(i, result) ==
        IF i > Len(bindings) THEN result
        ELSE IF ~\E t \in walk(target) :
                   matchesSelector(t, bindings[i].selector)
          THEN best(i + 1, result)
        ELSE IF result = <<>> \/ bindings[i].specificity >= result[1].specificity
          THEN best(i + 1, <<bindings[i]>>)
        ELSE best(i + 1, result)
      match == best(1, <<>>)
  IN  IF match # <<>> THEN [invoked |-> <<match[1].obj>>, prevented |-> TRUE]
      ELSE [invoked |-> <<>>, prevented |-> FALSE]

\* dispatchBindings without the return after the handler call: the walk
\* goes on and calls the best match of every element up to the boundary.
RECURSIVE dispatchWalk_noReturn(_, _, _)
dispatchWalk_noReturn(bindings, target, currentTarget) ==
  IF target = NoElement THEN [invoked |-> <<>>, prevented |-> FALSE]
  ELSE
    LET match == findBestMatch(bindings, target)
        here == IF match # <<>> THEN <<match[1].obj>> ELSE <<>>
        rest == IF target = currentTarget
                  THEN [invoked |-> <<>>, prevented |-> FALSE]
                ELSE dispatchWalk_noReturn(bindings, parentElement(target),
                                           currentTarget)
    IN  [invoked |-> here \o rest.invoked,
         prevented |-> match # <<>> \/ rest.prevented]

\* dispatchBindings, walking up from target: the handlers it calls and
\* whether it calls event.preventDefault().
RECURSIVE dispatchWalk(_, _, _)
dispatchWalk(bindings, target, currentTarget) ==
  IF target = NoElement THEN [invoked |-> <<>>, prevented |-> FALSE]
  ELSE
    LET match == findBestMatch(bindings, target) IN
    IF match # <<>> THEN [invoked |-> <<match[1].obj>>, prevented |-> TRUE]
    ELSE IF target = currentTarget THEN [invoked |-> <<>>, prevented |-> FALSE]
    ELSE dispatchWalk(bindings, parentElement(target), currentTarget)

dispatchBindings(bindings, event) ==
  dispatchWalk(bindings, event.target, event.currentTarget)

-----------------------------------------------------------------------------
(* The sorting dispatcher (src/unnamed/part_000): the matches of an        *)
(* element are sorted and the first of them is invoked.                    *)

\* exBindingCmp breaking ties with the older binding first.
exBindingCmp_olderFirst(first, second) ==
  IF first.specificity = second.specificity THEN first.id - second.id
  ELSE second.specificity - first.specificity

exBindingCmp(first, second) ==
  IF first.specificity = second.specificity THEN second.id - first.id
  ELSE second.specificity - first.specificity

\* result.sort(exBindingCmp).
RECURSIVE sortCmpInsert(_, _)
sortCmpInsert(sorted, exb) ==
  IF sorted = <<>> THEN <<exb>>
  ELSE IF exBindingCmp(exb, Head(sorted)) < 0 THEN <<exb>> \o sorted
  ELSE <<Head(sorted)>> \o sortCmpInsert(Tail(sorted), exb)

RECURSIVE sortCmp(_)
sortCmp(array) ==
  IF array = <<>> THEN <<>>
  ELSE sortCmpInsert(sortCmp(SubSeq(array, 1, Len(array) - 1)),
                     array[Len(array)])

\* findSelectorMatches of src/unnamed/part_000.
findSelectorMatchesCmp(bindings, target) ==
  sortCmp(SelectSeq(bindings, LAMBDA exb : matchesSelector(target, exb.selector)))

-----------------------------------------------------------------------------
(* The handler-veto dispatcher (src/unnamed/part_004): a handler returns   *)
(* true to consume the event and false to let the dispatch go on.  The     *)
(* handler of an ex binding is named by the value it returns.              *)

\* ExBinding.compare breaking ties with the older binding first.
compare_olderFirst(exA, exB) ==
  IF exA.specificity = exB.specificity THEN exA.id - exB.id
  ELSE exB.specificity - exA.specificity

\* ExBinding.compare.
compare(exA, exB) ==
  IF exA.specificity = exB.specificity THEN exB.id - exA.id
  ELSE exB.specificity - exA.specificity

\* Array.prototype.sort(ExBinding.compare): no two ex bindings compare
\* equal, so the sorted array does not depend on the algorithm.
RECURSIVE sortInsert(_, _)
sortInsert(sorted, exb) ==
  IF sorted = <<>> THEN <<exb>>
  ELSE IF compare(exb, Head(sorted)) < 0 THEN <<exb>> \o sorted
  ELSE <<Head(sorted)>> \o sortInsert(Tail(sorted), exb)

RECURSIVE sort(_)
sort(array) ==
  IF array = <<>> THEN <<>>
  ELSE sortInsert(sort(Tail(array)), Head(array))

findSelectorMatches(bindings, target) ==
  sort(SelectSeq(bindings, LAMBDA exb : matchesSelector(target, exb.selector)))

\* ExBinding.invoke: the value the handler returns.
invoke(exb) == exb.handler = "true"

\* The loop of dispatchBindings over the sorted matches of one element,
\* from index i on: the handlers it calls and whether one returned true.
RECURSIVE invokeMatches(_, _)
invokeMatches(matches, i) ==
  IF i > Len(matches) THEN [invoked |-> <<>>, prevented |-> FALSE]
  ELSE IF invoke(matches[i])
    THEN [invoked |-> <<matches[i].obj>>, prevented |-> TRUE]
  ELSE LET rest == invokeMatches(matches, i + 1)
       IN  [invoked |-> <<matches[i].obj>> \o rest.invoked,
            prevented |-> rest.prevented]

\* The handler-veto dispatch which looks at the target alone.
vetoWalk_targetOnly(bindings, target, current) ==
  IF target = NoElement THEN [invoked |-> <<>>, prevented |-> FALSE]
  ELSE invokeMatches(findSelectorMatches(bindings, target), 1)

\* The while loop of the handler-veto dispatchBindings.
RECURSIVE vetoWalk(_, _, _)
vetoWalk(bindings, target, current) ==
  IF target = NoElement THEN [invoked |-> <<>>, prevented |-> FALSE]
  ELSE
    LET here == invokeMatches(findSelectorMatches(bindings, target), 1) IN
    IF here.prevented \/ target = current THEN here
    ELSE LET rest == vetoWalk(bindings, parentElement(target), current)
         IN  [invoked |-> here.invoked \o rest.invoked,
              prevented |-> rest.prevented]

\* dispatchBindings of src/unnamed/part_004.
dispatchBindingsVeto(bindings, event) ==
  vetoWalk(bindings, event.target, event.currentTarget)

-----------------------------------------------------------------------------
(* The timer. *)

\* The host's setTimeout: a handle that is not outstanding and differs from
\* the handle last held.
setTimeout(sched, last) ==
  CHOOSE h \in 1..(Cardinality(sched) + 2) :
    /\ h \notin sched \cup {last}
    /\ \A g \in 1..(h - 1) : g \in sched \cup {last}

\* _clearTimer which cancels the timeout and keeps its handle in _timer.
clearTimer_keepHandle(timer, sched) ==
  IF timer # 0 THEN [timer |-> timer, scheduled |-> sched \ {timer}]
  ELSE [timer |-> timer, scheduled |-> sched]

\* _clearTimer, as the new values of _timer and of the host's queue.
clearTimer(timer, sched) ==
  IF timer # 0 THEN [timer |-> 0, scheduled |-> sched \ {timer}]
  ELSE [timer |-> timer, scheduled |-> sched]

\* _startTimer without the call of _clearTimer.
startTimer_noClear(timer, sched) ==
  LET h == setTimeout(sched, timer)
  IN  [timer |-> h, scheduled |-> sched \cup {h}]

\* _startTimer which leaves a running timer alone.
startTimer_keepRunning(timer, sched) ==
  IF timer # 0 THEN [timer |-> timer, scheduled |-> sched]
  ELSE LET h == setTimeout(sched, timer)
       IN  [timer |-> h, scheduled |-> sched \cup {h}]

\* _startTimer which cancels the running timer and schedules none.
startTimer_onlyClears(timer, sched) == clearTimer(timer, sched)

\* _startTimer.
startTimer(timer, sched) ==
  LET c == clearTimer(timer, sched)
      h == setTimeout(c.scheduled, timer)
  IN  [timer |-> h, scheduled |-> c.scheduled \cup {h}]

-----------------------------------------------------------------------------
(* The state after construction. *)

Init ==
  /\ _bindings = <<>>
  /\ _sequence = <<>>
  /\ _exactData = <<>>
  /\ _timer = 0
  /\ scheduled = {}
  /\ handles = <<>>
  /\ bindingId = 0
  /\ invoked = <<>>
  /\ prevented = FALSE
  /\ lastOp = "new"
  /\ path = ""
  /\ typed = <<>>
  /\ other = <<>>
  /\ _scopeSequenceMap = <<>>
  /\ _scopeCommandMap = <<>>
  /\ listening = TRUE
  /\ _timeoutState = ""
  /\ _timeoutObj = 0
  /\ input = <<>>
  /\ output = <<>>

-----------------------------------------------------------------------------
(* The operations of KeymapManager. *)

\* The pending state is clear: no keystroke buffered, no exact set
\* remembered, no timer armed.
Idle == _sequence = <<>> /\ _exactData = <<>> /\ _timer = 0 /\ scheduled = {}

Pending == _sequence # <<>>

\* The ex bindings the add calls of a manager have created, given the
\* arrays its disposables hold.
RECURSIVE CreatedBy(_)
CreatedBy(hs) ==
  IF hs = <<>> THEN 0 ELSE Len(Head(hs)) + CreatedBy(Tail(hs))

\* The ex bindings created so far, by this manager and by the second one
\* when there is one.
Allocated ==
  CreatedBy(handles) + (IF other = <<>> THEN 0 ELSE CreatedBy(other.handles))

\* indexOf comparing the ex bindings field by field instead of by identity.
indexOf_byValue(array, exb) ==
  LET same(x) == /\ x.selector = exb.selector
                 /\ x.sequence = exb.sequence
                 /\ x.handler = exb.handler
  IN  IF \E i \in 1..Len(array) : same(array[i])
        THEN (CHOOSE i \in 1..Len(array) :
                /\ same(array[i])
                /\ \A j \in 1..(i - 1) : ~same(array[j])) - 1
      ELSE -1

\* Array.prototype.indexOf on ex bindings: strict equality is object identity.
indexOf(array, exb) ==
  IF \E i \in 1..Len(array) : array[i].obj = exb.obj
    THEN (CHOOSE i \in 1..Len(array) :
            /\ array[i].obj = exb.obj
            /\ \A j \in 1..(i - 1) : array[j].obj # exb.obj) - 1
  ELSE -1

\* bindingId++ which leaves the counter where it was.
nextBindingId_stuck(id) == id

\* The value of bindingId after the bindingId++ of createExBinding.
nextBindingId(id) == id + 1

\* The loop of add giving up the batch at the first binding createExBinding
\* rejects.
RECURSIVE addLoop_abortBatch(_, _, _, _, _)
addLoop_abortBatch(bindings, i, exbArray, created, id) ==
  IF i > Len(bindings) THEN exbArray
  ELSE
    LET exb == createExBinding(bindings[i], created + 1, id) IN
    IF exb # <<>>
      THEN addLoop_abortBatch(bindings, i + 1, Append(exbArray, exb[1]),
                              created + 1, nextBindingId(id))
    ELSE exbArray

\* The loop of add which converts the bindings from index i on.  created
\* counts the ex bindings made so far; id is the value of bindingId, which
\* the bindingId++ of createExBinding advances for each binding it returns.
RECURSIVE addLoop(_, _, _, _, _)
addLoop(bindings, i, exbArray, created, id) ==
  IF i > Len(bindings) THEN exbArray
  ELSE
    LET exb == createExBinding(bindings[i], created + 1, id) IN
    IF exb # <<>>
      THEN addLoop(bindings, i + 1, Append(exbArray, exb[1]),
                   created + 1, nextBindingId(id))
    ELSE addLoop(bindings, i + 1, exbArray, created, id)

add(bindings) ==
  /\ Len(handles) < MaxAdds
  /\ Allocated + Len(bindings) <= MaxBindings
  /\ LET exbArray == addLoop(bindings, 1, <<>>, Allocated, bindingId) IN
     /\ _bindings' = _bindings \o exbArray
     /\ handles' = Append(handles, exbArray)
     /\ bindingId' = IF exbArray = <<>> THEN bindingId
                     ELSE nextBindingId(exbArray[Len(exbArray)].id)
     /\ path' = IF Len(exbArray) < Len(bindings) THEN "dropped" ELSE ""
  /\ UNCHANGED <<_sequence, _exactData, _timer, scheduled>>
  /\ invoked' = <<>>
  /\ prevented' = FALSE
  /\ lastOp' = "add"
  /\ typed' = <<>>
  /\ UNCHANGED <<other, signalVars, callVars>>

\* _removeBindings dropping as many bindings from the end of the registry
\* as the array holds.
removeBindings_truncate(bindings, array) ==
  SubSeq(bindings, 1, IF Len(bindings) > Len(array)
                        THEN Len(bindings) - Len(array) ELSE 0)

\* _removeBindings removing only the first ex binding of the array.
removeBindings_firstOnly(bindings, array) ==
  SelectSeq(bindings, LAMBDA exb : indexOf(SubSeq(array, 1, 1), exb) = -1)

removeBindings(bindings, array) ==
  SelectSeq(bindings, LAMBDA exb : indexOf(array, exb) = -1)

\* None of the ex bindings of the array is registered.
NoneRegistered(array) ==
  \A i \in 1..Len(array) : indexOf(_bindings, array[i]) = -1

\* dispose() of the disposable returned by the h-th add call.
dispose(h) ==
  /\ h \in 1..Len(handles)
  /\ _bindings' = removeBindings(_bindings, handles[h])
  /\ UNCHANGED <<_sequence, _exactData, _timer, scheduled, handles,
                 bindingId>>
  /\ invoked' = <<>>
  /\ prevented' = FALSE
  /\ lastOp' = "dispose"
  /\ path' = IF NoneRegistered(handles[h]) THEN "again" ELSE ""
  /\ typed' = <<>>
  /\ UNCHANGED <<other, signalVars, callVars>>

\* _clearPendingState without the reset of _sequence.
clearPendingState_keepSequence(timer, sched, exactData, sequence) ==
  LET c == clearTimer(timer, sched) IN
  [timer |-> c.timer, scheduled |-> c.scheduled,
   exactData |-> <<>>, sequence |-> sequence]

\* _clearPendingState without the reset of _exactData.
clearPendingState_keepExact(timer, sched, exactData, sequence) ==
  LET c == clearTimer(timer, sched) IN
  [timer |-> c.timer, scheduled |-> c.scheduled,
   exactData |-> exactData, sequence |-> <<>>]

\* _clearPendingState, as the new values of the pending state.
clearPendingState(timer, sched, exactData, sequence) ==
  LET c == clearTimer(timer, sched) IN
  [timer |-> c.timer, scheduled |-> c.scheduled,
   exactData |-> <<>>, sequence |-> <<>>]

\* The store into _exactData made only when nothing is remembered yet.
rememberExact_keepFirst(exactData, matches, event) ==
  IF Len(matches.exact) > 0 /\ exactData = <<>>
    THEN << [exact |-> matches.exact, event |-> event] >>
  ELSE exactData

\* The store into _exactData of the partial matches in place of the exact
\* ones.
rememberExact_storesPartial(exactData, matches, event) ==
  IF Len(matches.exact) > 0
    THEN << [exact |-> matches.partial, event |-> event] >>
  ELSE exactData

\* The store into _exactData made by processKeydownEvent when partial
\* matches exist.
rememberExact(exactData, matches, event) ==
  IF Len(matches.exact) > 0
    THEN << [exact |-> matches.exact, event |-> event] >>
  ELSE exactData

processKeydownEvent(event) ==
  LET keystroke == keystrokeForKeydownEvent(event)
      sequence == Append(_sequence, keystroke)
      matches == findSequenceMatches(_bindings, sequence)
      cleared == clearPendingState(_timer, scheduled, _exactData, sequence)
      started == startTimer(_timer, scheduled)
      result == dispatchBindings(matches.exact, event)
  IN
  /\ lastOp' = "keydown"
  /\ UNCHANGED <<_bindings, handles, bindingId>>
  /\ UNCHANGED <<other, signalVars, callVars>>
  /\ typed' = IF keystroke = "" THEN <<>> ELSE sequence
  /\ IF keystroke = "" THEN
       /\ path' = "invalid"
       /\ UNCHANGED <<_sequence, _exactData, _timer, scheduled>>
       /\ invoked' = <<>>
       /\ prevented' = FALSE
     ELSE IF Len(matches.exact) = 0 /\ Len(matches.partial) = 0 THEN
       /\ _timer' = cleared.timer
       /\ scheduled' = cleared.scheduled
       /\ _exactData' = cleared.exactData
       /\ _sequence' = cleared.sequence
       /\ path' = "none"
       /\ invoked' = <<>>
       /\ prevented' = FALSE
     ELSE IF Len(matches.partial) = 0 THEN
       /\ _timer' = cleared.timer
       /\ scheduled' = cleared.scheduled
       /\ _exactData' = cleared.exactData
       /\ _sequence' = cleared.sequence
       /\ path' = "exact"
       /\ invoked' = result.invoked
       /\ prevented' = result.prevented
     ELSE
       /\ path' = "partial"
       /\ _sequence' = sequence
       /\ _exactData' = rememberExact(_exactData, matches, event)
       /\ _timer' = started.timer
       /\ scheduled' = started.scheduled
       /\ invoked' = <<>>
       /\ prevented' = TRUE

\* The event object as the timer callback reads it: once the listeners of
\* the keydown have returned, the DOM has reset currentTarget to null.
eventAfterDispatch(event) == [event EXCEPT !.currentTarget = NoElement]

\* _onPendingTimeout without the reset of _sequence.
onPendingTimeout_keepSequence(data, sequence) ==
  [timer |-> 0, exactData |-> <<>>, sequence |-> sequence,
   result |-> IF data # <<>>
                THEN dispatchBindings(data[1].exact,
                                      eventAfterDispatch(data[1].event))
              ELSE [invoked |-> <<>>, prevented |-> FALSE]]

\* _onPendingTimeout without the reset of _timer.
onPendingTimeout_keepTimer(data, sequence) ==
  [timer |-> _timer, exactData |-> <<>>, sequence |-> <<>>,
   result |-> IF data # <<>>
                THEN dispatchBindings(data[1].exact,
                                      eventAfterDispatch(data[1].event))
              ELSE [invoked |-> <<>>, prevented |-> FALSE]]

\* _onPendingTimeout, as the new values of the pending state and the
\* outcome of the dispatch it makes.
onPendingTimeout(data, sequence) ==
  [timer |-> 0, exactData |-> <<>>, sequence |-> <<>>,
   result |-> IF data # <<>>
                THEN dispatchBindings(data[1].exact,
                                      eventAfterDispatch(data[1].event))
              ELSE [invoked |-> <<>>, prevented |-> FALSE]]

\* The host takes the outstanding timeout t off its queue and runs its
\* callback, which calls _onPendingTimeout.
timerCallback(t) ==
  /\ t \in scheduled
  /\ scheduled' = scheduled \ {t}
  /\ LET r == onPendingTimeout(_exactData, _sequence) IN
     /\ _timer' = r.timer
     /\ _exactData' = r.exactData
     /\ _sequence' = r.sequence
     /\ invoked' = r.result.invoked
     /\ prevented' = r.result.prevented
  /\ UNCHANGED <<_bindings, handles, bindingId>>
  /\ lastOp' = "timeout"
  /\ path' = IF _exactData # <<>> THEN "data" ELSE "nodata"
  /\ typed' = <<>>
  /\ UNCHANGED <<other, signalVars, callVars>>

Add == \E bindings \in Batches : add(bindings)

Dispose == \E h \in 1..MaxAdds : dispose(h)

Keydown == \E event \in KeydownEvents : processKeydownEvent(event)

Timeout == \E t \in scheduled : timerCallback(t)

Next == Add \/ Dispose \/ Keydown \/ Timeout

Spec == Init /\ [][Next]_vars

\* The host's event loop runs the callback of an outstanding timeout.
LiveSpec == Init /\ [][Next]_vars /\ WF_vars(Timeout)

\* The manager driven by add calls whose batches mix valid and invalid
\* bindings.
AddMixed == \E bindings \in MixedBatches : add(bindings)

MixedNext == AddMixed \/ Dispose \/ Keydown \/ Timeout

MixedSpec == Init /\ [][MixedNext]_vars

-----------------------------------------------------------------------------
(* The manager receiving keydown events with a modifier held.              *)

\* The events of the element 1 with the ctrl key held, on the key "a" and
\* on a key code outside the key table, besides the events without
\* modifier.
HeldEvents ==
  KeydownEvents
  \cup { [ev EXCEPT !.ctrlKey = TRUE] :
           ev \in { e \in KeydownEvents : e.keyCode \in {65, 0} /\ e.target = 1 } }

KeydownHeld == \E event \in HeldEvents : processKeydownEvent(event)

HeldNext == Add \/ Dispose \/ KeydownHeld \/ Timeout

HeldSpec == Init /\ [][HeldNext]_vars

-----------------------------------------------------------------------------
(* Two managers in one page.  The operations above act on the manager      *)
(* being addressed, whose fields are the variables; the fields of the      *)
(* second manager are kept in other.  The host's timer queue, the heap and *)
(* the DOM are shared.                                                     *)

\* The bindings the two managers are given.
TwoInputs ==
  { [selector |-> "*", sequence |-> <<KeyA>>,       handler |-> "fn"],
    [selector |-> "*", sequence |-> <<KeyA, KeyB>>, handler |-> "fn"] }

\* The keydown events the listeners of the two managers receive.
TwoEvents == { ev \in KeydownEvents : ev.target = 1 }

\* Two managers after construction.
TwoInit ==
  /\ _bindings = <<>>
  /\ _sequence = <<>>
  /\ _exactData = <<>>
  /\ _timer = 0
  /\ scheduled = {}
  /\ handles = <<>>
  /\ bindingId = 0
  /\ invoked = <<>>
  /\ prevented = FALSE
  /\ lastOp = "new"
  /\ path = ""
  /\ typed = <<>>
  /\ other = [_bindings |-> <<>>, _sequence |-> <<>>, _exactData |-> <<>>,
              _timer |-> 0, handles |-> <<>>]
  /\ _scopeSequenceMap = <<>>
  /\ _scopeCommandMap = <<>>
  /\ listening = TRUE
  /\ _timeoutState = ""
  /\ _timeoutObj = 0
  /\ input = <<>>
  /\ output = <<>>

\* The next operation is made on the second manager: this now refers to
\* its fields.
address ==
  /\ other # <<>>
  /\ lastOp # "address"
  /\ _bindings' = other._bindings
  /\ _sequence' = other._sequence
  /\ _exactData' = other._exactData
  /\ _timer' = other._timer
  /\ handles' = other.handles
  /\ other' = [_bindings |-> _bindings, _sequence |-> _sequence,
               _exactData |-> _exactData, _timer |-> _timer,
               handles |-> handles]
  /\ invoked' = <<>>
  /\ prevented' = FALSE
  /\ lastOp' = "address"
  /\ path' = ""
  /\ typed' = <<>>
  /\ UNCHANGED <<scheduled, bindingId, signalVars, callVars>>

\* The callback of a timeout running on the manager being addressed,
\* whichever manager armed the timeout.
armedByThis_any(t, timer) == TRUE

\* The callback of timeout t is the arrow function _startTimer created: it
\* runs _onPendingTimeout on the manager that armed t, the one whose _timer
\* holds t.
armedByThis(t, timer) == t = timer

TwoAdd ==
  \E binding \in TwoInputs :
    /\ Len(handles) + Len(other.handles) < MaxAdds
    /\ add(<< binding >>)

TwoKeydown == \E event \in TwoEvents : processKeydownEvent(event)

TwoTimeout ==
  \E t \in scheduled : armedByThis(t, _timer) /\ timerCallback(t)

TwoNext == TwoAdd \/ Dispose \/ TwoKeydown \/ TwoTimeout \/ address

TwoSpec == TwoInit /\ [][TwoNext]_vars

-----------------------------------------------------------------------------
(* The handler-veto dispatcher applied to the exact matches of a keystroke *)
(* and its event.                                                          *)

\* The ExBinding objects of the exact matches of the keystroke "a", in
\* registry order: idTick gives the n-th of them the id n - 1.
VetoCandidates ==
  UNION { { [n \in 1..len |->
               [obj |-> n, id |-> n - 1, sequence |-> <<"a">>,
                handler |-> f[n].handler, selector |-> f[n].selector,
                specificity |-> calculateSpecificity(f[n].selector)]] :
            f \in [1..len -> [selector : Selectors,
                              handler : {"true", "false"}]] } :
          len \in 1..MaxBindings }

\* The event of the keystroke "a", as a listener receives it and as the
\* timer callback reads it.
VetoEvents ==
  LET received == { ev \in KeydownEvents : ev.keyCode = 65 }
  IN  received \cup { eventAfterDispatch(ev) : ev \in received }

\* The exact matches and the event about to be dispatched.
VetoInit ==
  /\ _bindings \in VetoCandidates
  /\ \E ev \in VetoEvents : _exactData = << [exact |-> _bindings, event |-> ev] >>
  /\ bindingId = Len(_bindings)
  /\ _sequence = <<>>
  /\ _timer = 0
  /\ scheduled = {}
  /\ handles = <<>>
  /\ invoked = <<>>
  /\ prevented = FALSE
  /\ lastOp = "new"
  /\ path = ""
  /\ typed = <<>>
  /\ other = <<>>
  /\ _scopeSequenceMap = <<>>
  /\ _scopeCommandMap = <<>>
  /\ listening = TRUE
  /\ _timeoutState = ""
  /\ _timeoutObj = 0
  /\ input = <<>>
  /\ output = <<>>

\* The call dispatchBindings(exact, event) of src/unnamed/part_004.
vetoDispatch ==
  /\ lastOp = "new"
  /\ _exactData # <<>>
  /\ LET r == dispatchBindingsVeto(_exactData[1].exact, _exactData[1].event) IN
     /\ invoked' = r.invoked
     /\ prevented' = r.prevented
  /\ lastOp' = "dispatch"
  /\ UNCHANGED <<_bindings, _sequence, _exactData, _timer, scheduled, handles,
                 bindingId, path, typed>>
  /\ UNCHANGED <<other, signalVars, callVars>>

VetoNext == vetoDispatch

VetoSpec == VetoInit /\ [][VetoNext]_vars

-----------------------------------------------------------------------------
(* The handler-veto dispatcher with handlers that change the registry      *)
(* while the dispatch runs.  Besides "true" and "false", a handler is      *)
(* named "add" when it registers a binding for the same keystroke and      *)
(* returns false, and "dispose" when it disposes the disposable of the add *)
(* call that registered the candidates and returns false.                  *)

\* The ExBinding the handler named "add" registers: new ExBinding("*",
\* "a", handler returning true), with the id idTick gives it.
addedByHandler(tick) ==
  [obj |-> tick + 1, id |-> tick, sequence |-> <<"a">>, handler |-> "true",
   selector |-> "*", specificity |-> calculateSpecificity("*")]

\* The run of the handler of exb on the manager's state: mgr.registry is
\* this._bindings, mgr.tick is ExBinding.idTick and mgr.arr is the array
\* newBindings the disposable holds.
runHandler(exb, mgr) ==
  IF exb.handler = "add"
    THEN [mgr EXCEPT !.registry = Append(mgr.registry, addedByHandler(mgr.tick)),
                     !.tick = mgr.tick + 1]
  ELSE IF exb.handler = "dispose"
    THEN [mgr EXCEPT !.registry = removeBindings(mgr.registry, mgr.arr)]
  ELSE mgr

\* The for loop of dispatchBindings over the sorted matches of one element.
RECURSIVE invokeMatchesOn(_, _, _)
invokeMatchesOn(matches, i, mgr) ==
  IF i > Len(matches)
    THEN [invoked |-> <<>>, prevented |-> FALSE, mgr |-> mgr]
  ELSE
    LET after == runHandler(matches[i], mgr) IN
    IF invoke(matches[i])
      THEN [invoked |-> <<matches[i].obj>>, prevented |-> TRUE, mgr |-> after]
    ELSE LET rest == invokeMatchesOn(matches, i + 1, after)
         IN  [invoked |-> <<matches[i].obj>> \o rest.invoked,
              prevented |-> rest.prevented, mgr |-> rest.mgr]

\* dispatchBindings reading the manager's registry at each element instead
\* of the array it was handed.
dispatchedArray_registry(bindings, mgr) == mgr.registry

\* The array dispatchBindings filters at each element: its parameter
\* bindings, the array findSequenceMatches built when the sequence matched.
dispatchedArray(bindings, mgr) == bindings

\* The while loop of dispatchBindings.
RECURSIVE walkOn(_, _, _, _)
walkOn(bindings, target, current, mgr) ==
  IF target = NoElement
    THEN [invoked |-> <<>>, prevented |-> FALSE, mgr |-> mgr]
  ELSE
    LET matches == findSelectorMatches(dispatchedArray(bindings, mgr), target)
        here == invokeMatchesOn(matches, 1, mgr)
    IN  IF here.prevented \/ target = current THEN here
        ELSE LET rest == walkOn(bindings, parentElement(target), current,
                                here.mgr)
             IN  [invoked |-> here.invoked \o rest.invoked,
                  prevented |-> rest.prevented, mgr |-> rest.mgr]

\* The registries whose bindings all match the keystroke "a" exactly and
\* were registered by one add call.
ReentrantCandidates ==
  UNION { { [n \in 1..len |->
               [obj |-> n, id |-> n - 1, sequence |-> <<"a">>,
                handler |-> f[n].handler, selector |-> f[n].selector,
                specificity |-> calculateSpecificity(f[n].selector)]] :
            f \in [1..len -> [selector : Selectors,
                              handler : {"true", "false", "add", "dispose"}]] } :
          len \in 1..MaxBindings }

\* The keystroke "a" has matched: exact holds the array findSequenceMatches
\* built from the registry.
ReentrantInit ==
  /\ _bindings \in ReentrantCandidates
  /\ \E ev \in VetoEvents :
       _exactData = << [exact |-> findSequenceMatches(_bindings, <<"a">>).exact,
                        event |-> ev] >>
  /\ handles = << _bindings >>
  /\ bindingId = Len(_bindings)
  /\ _sequence = <<>>
  /\ _timer = 0
  /\ scheduled = {}
  /\ invoked = <<>>
  /\ prevented = FALSE
  /\ lastOp = "new"
  /\ path = ""
  /\ typed = <<>>
  /\ other = <<>>
  /\ _scopeSequenceMap = <<>>
  /\ _scopeCommandMap = <<>>
  /\ listening = TRUE
  /\ _timeoutState = ""
  /\ _timeoutObj = 0
  /\ input = <<>>
  /\ output = <<>>

\* The call dispatchBindings(exact, event), whose handlers act on the
\* manager.
reentrantDispatch ==
  /\ lastOp = "new"
  /\ LET r == walkOn(_exactData[1].exact, _exactData[1].event.target,
                     _exactData[1].event.currentTarget,
                     [registry |-> _bindings, tick |-> bindingId,
                      arr |-> handles[1]])
     IN  /\ invoked' = r.invoked
         /\ prevented' = r.prevented
         /\ _bindings' = r.mgr.registry
         /\ bindingId' = r.mgr.tick
  /\ lastOp' = "dispatch"
  /\ UNCHANGED <<_sequence, _exactData, _timer, scheduled, handles, path,
                 typed, other, signalVars, callVars>>

\* The next keystroke "a" is matched against the registry.
matchLater ==
  /\ lastOp = "dispatch"
  /\ _exactData' =
       << [exact |-> findSequenceMatches(_bindings, <<"a">>).exact,
           event |-> _exactData[1].event] >>
  /\ lastOp' = "matched"
  /\ invoked' = <<>>
  /\ prevented' = FALSE
  /\ UNCHANGED <<_bindings, _sequence, _timer, scheduled, handles, bindingId,
                 path, typed, other, signalVars, callVars>>

ReentrantNext == reentrantDispatch \/ matchLater

ReentrantSpec == ReentrantInit /\ [][ReentrantNext]_vars

-----------------------------------------------------------------------------
(* The KeymapManager of src/unnamed/part_004, whose handlers return a      *)
(* boolean.  Its fields are those of the manager above, _keystrokes being  *)
(* held in _sequence.  The module './keycodes' it imports is not in the    *)
(* source tree: the "+" dialect of src/unnamed/part_006 stands for its     *)
(* keystroke functions.                                                    *)

\* The key codes of the modifier keys: shift, ctrl, alt and meta.
ModifierKeyCodes == {16, 17, 18, 91}

\* isModifierKeyCode of './keycodes'.
isModifierKeyCode(keyCode) == keyCode \in ModifierKeyCodes

\* keystrokeForKeydownEvent of the "+" dialect.
keystrokeForKeydownEventPlus(event) ==
  LET p1 == IF event.ctrlKey THEN "ctrl+" ELSE ""
      p2 == IF event.altKey THEN p1 \o "alt+" ELSE p1
      p3 == IF event.shiftKey THEN p2 \o "shift+" ELSE p2
      p4 == IF event.metaKey THEN p3 \o "cmd+" ELSE p3
  IN  p4 \o keyForKeyCode(event.keyCode)

\* ExBinding.isExactMatch and ExBinding.isPartialMatch.  The code joins
\* the keystrokes with a space and compares strings: sequence + ' ' is a
\* prefix of the binding's string when the keystrokes are a proper prefix
\* of the binding's keystrokes.
isExactMatch(exb, sequence) == exb.sequence = sequence

isPartialMatch(exb, sequence) ==
  /\ Len(sequence) < Len(exb.sequence)
  /\ SubSeq(exb.sequence, 1, Len(sequence)) = sequence

\* findSequenceMatches of src/unnamed/part_004.
findSequenceMatchesVeto(bindings, sequence) ==
  [exact   |-> SelectSeq(bindings, LAMBDA exb : isExactMatch(exb, sequence)),
   partial |-> SelectSeq(bindings,
                 LAMBDA exb : ~isExactMatch(exb, sequence)
                              /\ isPartialMatch(exb, sequence))]

RECURSIVE mapNormalizePlus(_)
mapNormalizePlus(keystrokes) ==
  IF keystrokes = <<>> THEN <<>>
  ELSE << normalizeKeystrokePlus(Head(keystrokes)) >>
         \o mapNormalizePlus(Tail(keystrokes))

\* The loop of add(selector, bindings) from binding i on: newBindings.
RECURSIVE addVetoLoop(_, _, _, _, _)
addVetoLoop(selector, bindings, i, newBindings, tick) ==
  IF i > Len(bindings) THEN newBindings
  ELSE
    LET binding == bindings[i]
        norm == mapNormalizePlus(binding.sequence)
    IN  IF binding.handler = "" THEN
          addVetoLoop(selector, bindings, i + 1, newBindings, tick)
        ELSE IF \E j \in 1..Len(norm) : ~norm[j].ok THEN
          addVetoLoop(selector, bindings, i + 1, newBindings, tick)
        ELSE
          addVetoLoop(selector, bindings, i + 1,
            Append(newBindings,
              [obj |-> tick + 1, id |-> tick,
               sequence |-> [j \in 1..Len(norm) |-> norm[j].value],
               handler |-> binding.handler, selector |-> selector,
               specificity |-> calculateSpecificity(selector)]),
            tick + 1)

\* add(selector, bindings) of src/unnamed/part_004.
addVeto(selector, bindings) ==
  /\ Len(handles) < MaxAdds
  /\ bindingId + Len(bindings) <= MaxBindings
  /\ IF ~isSelectorValid(selector) THEN
       UNCHANGED <<_bindings, handles, bindingId>>
     ELSE
       LET newBindings == addVetoLoop(selector, bindings, 1, <<>>, bindingId) IN
       /\ _bindings' = _bindings \o newBindings
       /\ handles' = Append(handles, newBindings)
       /\ bindingId' = bindingId + Len(newBindings)
  /\ UNCHANGED <<_sequence, _exactData, _timer, scheduled>>
  /\ invoked' = <<>>
  /\ prevented' = FALSE
  /\ lastOp' = "add"
  /\ path' = ""
  /\ typed' = <<>>
  /\ UNCHANGED <<other, signalVars, callVars>>

\* The keydown of a modifier key handled as a keystroke that matches
\* nothing.
onModifierKey_clears(timer, sched, exactData, keystrokes) ==
  clearPendingState(timer, sched, exactData, keystrokes)

\* The pending state after the keydown of a modifier key: the method
\* returns before it touches any field.
onModifierKey(timer, sched, exactData, keystrokes) ==
  [timer |-> timer, scheduled |-> sched, exactData |-> exactData,
   sequence |-> keystrokes]

\* processKeydownEvent of src/unnamed/part_004.
processKeydownEventVeto(event) ==
  LET keystrokes == Append(_sequence, keystrokeForKeydownEventPlus(event))
      matches == findSequenceMatchesVeto(_bindings, keystrokes)
      kept == onModifierKey(_timer, scheduled, _exactData, _sequence)
      cleared == clearPendingState(_timer, scheduled, _exactData, keystrokes)
      started == startTimer(_timer, scheduled)
      result == dispatchBindingsVeto(matches.exact, event)
  IN
  /\ lastOp' = "keydown"
  /\ UNCHANGED <<_bindings, handles, bindingId>>
  /\ UNCHANGED <<other, signalVars, callVars>>
  /\ IF isModifierKeyCode(event.keyCode) THEN
       /\ _timer' = kept.timer
       /\ scheduled' = kept.scheduled
       /\ _exactData' = kept.exactData
       /\ _sequence' = kept.sequence
       /\ typed' = <<>>
       /\ path' = "modifier"
       /\ invoked' = <<>>
       /\ prevented' = TRUE
     ELSE IF Len(matches.exact) = 0 /\ Len(matches.partial) = 0 THEN
       /\ _timer' = cleared.timer
       /\ scheduled' = cleared.scheduled
       /\ _exactData' = cleared.exactData
       /\ _sequence' = cleared.sequence
       /\ typed' = keystrokes
       /\ path' = "none"
       /\ invoked' = <<>>
       /\ prevented' = FALSE
     ELSE IF Len(matches.partial) = 0 THEN
       /\ _timer' = cleared.timer
       /\ scheduled' = cleared.scheduled
       /\ _exactData' = cleared.exactData
       /\ _sequence' = cleared.sequence
       /\ typed' = keystrokes
       /\ path' = "exact"
       /\ invoked' = result.invoked
       /\ prevented' = result.prevented
     ELSE
       /\ _sequence' = keystrokes
       /\ _exactData' = rememberExact(_exactData, matches, event)
       /\ _timer' = started.timer
       /\ scheduled' = started.scheduled
       /\ typed' = keystrokes
       /\ path' = "partial"
       /\ invoked' = <<>>
       /\ prevented' = TRUE

\* The timer callback of src/unnamed/part_004: _onPendingTimeout.
timerCallbackVeto(t) ==
  /\ t \in scheduled
  /\ scheduled' = scheduled \ {t}
  /\ _timer' = 0
  /\ _exactData' = <<>>
  /\ _sequence' = <<>>
  /\ LET r == IF _exactData # <<>>
                THEN dispatchBindingsVeto(_exactData[1].exact,
                                          eventAfterDispatch(_exactData[1].event))
              ELSE [invoked |-> <<>>, prevented |-> FALSE]
     IN  invoked' = r.invoked /\ prevented' = r.prevented
  /\ UNCHANGED <<_bindings, handles, bindingId>>
  /\ lastOp' = "timeout"
  /\ path' = IF _exactData # <<>> THEN "data" ELSE "nodata"
  /\ typed' = <<>>
  /\ UNCHANGED <<other, signalVars, callVars>>

\* The bindings handed to add: the chord "Ctrl+A Ctrl+B" and the keystroke
\* "Ctrl+A", with a handler that returns true or false.
ChordInputs ==
  { [sequence |-> << <<"Ctrl", "+", "a">>, <<"Ctrl", "+", "b">> >>,
     handler |-> "true"],
    [sequence |-> << <<"Ctrl", "+", "a">> >>, handler |-> "true"],
    [sequence |-> << <<"Ctrl", "+", "a">> >>, handler |-> "false"] }

\* The keydown events with the ctrl key held: the keys "a" and "b" and the
\* ctrl key itself.
ChordEvents ==
  { ev \in [keyCode : {65, 66, 17}, ctrlKey : {TRUE}, altKey : {FALSE},
            shiftKey : {FALSE}, metaKey : {FALSE},
            target : Elements, currentTarget : Elements] :
      ev.currentTarget <= ev.target }

AddVeto ==
  \E selector \in Selectors, binding \in ChordInputs :
    addVeto(selector, << binding >>)

KeydownVeto == \E event \in ChordEvents : processKeydownEventVeto(event)

TimeoutVeto == \E t \in scheduled : timerCallbackVeto(t)

ChordNext == AddVeto \/ Dispose \/ KeydownVeto \/ TimeoutVeto

ChordSpec == Init /\ [][ChordNext]_vars

-----------------------------------------------------------------------------
(* The signal-based KeymapManager of src/src/index.ts.  A key sequence is  *)
(* written as the list of its keystrokes, a keystroke as the list of its   *)
(* tokens: what split(' ') and split('-') make of the text.  An object     *)
(* used as a map is the list of its entries in insertion order.            *)

\* The entries of KEYCODES the model types with; <<>> stands for undefined.
KEYCODES == (65 :> "a") @@ (66 :> "b")

getKeyChars(code) ==
  IF code \in DOMAIN KEYCODES THEN << KEYCODES[code] >> ELSE <<>>

MODIFIER_KEYS == <<"ctrl", "alt", "shift", "meta">>

\* MODIFIER_KEYS.indexOf(a), counted from 0, -1 when absent.
modifierIndex(a) ==
  IF \E i \in 1..Len(MODIFIER_KEYS) : MODIFIER_KEYS[i] = a
    THEN (CHOOSE i \in 1..Len(MODIFIER_KEYS) : MODIFIER_KEYS[i] = a) - 1
  ELSE -1

normOrder(a, b) == modifierIndex(a) - modifierIndex(b)

\* tokens.sort(normOrder).
RECURSIVE sortTokensInsert(_, _)
sortTokensInsert(sorted, token) ==
  IF sorted = <<>> THEN << token >>
  ELSE IF normOrder(token, Head(sorted)) < 0 THEN << token >> \o sorted
  ELSE << Head(sorted) >> \o sortTokensInsert(Tail(sorted), token)

RECURSIVE sortTokens(_)
sortTokens(tokens) ==
  IF tokens = <<>> THEN <<>>
  ELSE sortTokensInsert(sortTokens(SubSeq(tokens, 1, Len(tokens) - 1)),
                        tokens[Len(tokens)])

\* tokens.join('-'), as the pieces of the text: an empty token leaves no
\* piece.
RECURSIVE joinDash(_)
joinDash(tokens) ==
  IF tokens = <<>> THEN <<>>
  ELSE (IF tokens[1] = "" THEN <<>> ELSE << tokens[1] >>)
       \o (IF Len(tokens) = 1 THEN <<>>
           ELSE << "-" >> \o joinDash(Tail(tokens)))

\* The loop of normaliseModifiers from sequence i on, over the tokens of
\* the lower-cased text; result and previousMod are texts, written as the
\* lists of their pieces.
RECURSIVE normaliseLoop(_, _, _, _)
normaliseLoop(sequences, i, result, previousMod) ==
  IF i > Len(sequences) THEN result
  ELSE
    LET tokens == sequences[i]
    IN  IF Len(tokens) > 1 THEN
          LET key == tokens[Len(tokens)]
              mods == sortTokens(SubSeq(tokens, 1, Len(tokens) - 1))
          IN  normaliseLoop(sequences, i + 1,
                result \o (IF i > 1 THEN << " " >> ELSE <<>>)
                       \o joinDash(Append(mods, key)),
                joinDash(mods))
        ELSE IF previousMod # <<>> THEN
          normaliseLoop(sequences, i + 1,
            result \o << " " >> \o previousMod \o << "-" >> \o joinDash(tokens),
            previousMod)
        ELSE
          normaliseLoop(sequences, i + 1,
            result \o << " " >> \o joinDash(tokens), previousMod)

\* String.prototype.split(sep) on a text: the runs of pieces between the
\* separators, the empty ones kept.
RECURSIVE splitKeep(_, _, _)
splitKeep(pieces, sep, run) ==
  IF pieces = <<>> THEN << run >>
  ELSE IF Head(pieces) = sep
    THEN << run >> \o splitKeep(Tail(pieces), sep, <<>>)
  ELSE splitKeep(Tail(pieces), sep, Append(run, Head(pieces)))

\* input.toLowerCase() on a text.
lowerText(pieces) == [i \in 1..Len(pieces) |-> toLowerCase(pieces[i])]

\* The tokens normaliseModifiers cuts a text into: lower.split(' '), then
\* split('-') of each sequence.
sequencesOf(text) ==
  LET sequences == splitKeep(lowerText(text), " ", <<>>)
  IN  [i \in 1..Len(sequences) |->
        LET tokens == splitKeep(sequences[i], "-", <<>>)
        IN  [j \in 1..Len(tokens) |-> join(tokens[j])]]

\* normaliseModifiers(input), from a text to a text.
normaliseText(text) == normaliseLoop(sequencesOf(text), 1, <<>>, <<>>)

\* normaliseModifiers(input) of the text whose sequences and tokens are
\* keys, as a string.
normaliseModifiers(keys) ==
  join(normaliseLoop(
         [i \in 1..Len(keys) |->
           [j \in 1..Len(keys[i]) |-> toLowerCase(keys[i][j])]],
         1, <<>>, <<>>))

\* The index of the entry of the key in a map, 0 when it has none.
entryOf(map, key) ==
  IF \E i \in 1..Len(map) : map[i].key = key
    THEN CHOOSE i \in 1..Len(map) : map[i].key = key
  ELSE 0

\* map[key].push(item), the entry of the key made first when absent.
pushEntry(map, key, item) ==
  LET m1 == IF entryOf(map, key) = 0
              THEN Append(map, [key |-> key, value |-> <<>>])
            ELSE map
      k == entryOf(m1, key)
  IN  [m1 EXCEPT ![k].value = Append(m1[k].value, item)]

\* The entry of a scope made in a map when _scopeSequenceMap has none.
withScope(map, seqMap, scope) ==
  IF entryOf(seqMap, scope) = 0
    THEN Append(map, [key |-> scope, value |-> <<>>])
  ELSE map

\* The body of the loop of registerBindings, on both maps.
registerBinding(maps, bin) ==
  LET scope == IF bin.selector = "" THEN "*" ELSE bin.selector
      inp == normaliseModifiers(bin.keys)
      m1 == withScope(maps.sequences, maps.sequences, scope)
      c1 == withScope(maps.commands, maps.sequences, scope)
      s == entryOf(m1, scope)
      c == entryOf(c1, scope)
  IN  [sequences |->
         [m1 EXCEPT ![s].value = pushEntry(m1[s].value, inp, bin.command)],
       commands |->
         [c1 EXCEPT ![c].value = pushEntry(c1[c].value, bin.command, bin.keys)]]

RECURSIVE registerLoop(_, _, _)
registerLoop(maps, bindings, i) ==
  IF i > Len(bindings) THEN maps
  ELSE registerLoop(registerBinding(maps, bindings[i]), bindings, i + 1)

\* registerBindings(bindings); the disposable it returns holds the
\* bindings.
registerBindings(bindings) ==
  LET maps == registerLoop([sequences |-> _scopeSequenceMap,
                            commands |-> _scopeCommandMap], bindings, 1)
  IN
  /\ Len(handles) < MaxAdds
  /\ _scopeSequenceMap' = maps.sequences
  /\ _scopeCommandMap' = maps.commands
  /\ handles' = Append(handles, bindings)
  /\ invoked' = <<>>
  /\ prevented' = FALSE
  /\ lastOp' = "register"
  /\ path' = ""
  /\ UNCHANGED <<listening, _timeoutState, _timeoutObj, scheduled, typed>>
  /\ UNCHANGED <<_bindings, _sequence, _exactData, _timer, bindingId, other,
                 callVars>>

\* list.indexOf(item) on strings, counted from 1, 0 when absent.
indexOfValue(list, item) ==
  IF \E i \in 1..Len(list) : list[i] = item
    THEN CHOOSE i \in 1..Len(list) :
           list[i] = item /\ \A j \in 1..(i - 1) : list[j] # item
  ELSE 0

\* The list without its element at index i.
spliceOne(list, i) ==
  SubSeq(list, 1, i - 1) \o SubSeq(list, i + 1, Len(list))

\* removeItem deleting the entry of the key whatever is left in it.
removeItem_deleteEntry(map, scope, key, item) ==
  LET s == entryOf(map, scope)
      k == IF s = 0 THEN 0 ELSE entryOf(map[s].value, key)
  IN  IF s = 0 \/ k = 0 THEN [threw |-> TRUE, map |-> map]
      ELSE [threw |-> FALSE,
            map |-> [map EXCEPT ![s].value = spliceOne(map[s].value, k)]]

\* One half of the body of the loop of removeBindings: the item taken out
\* of map[scope][key], the entry deleted when it is left empty.  Reading a
\* property of undefined throws.
removeItem(map, scope, key, item) ==
  LET s == entryOf(map, scope)
      k == IF s = 0 THEN 0 ELSE entryOf(map[s].value, key)
      idx == indexOfValue(map[s].value[k].value, item)
      left == spliceOne(map[s].value[k].value, idx)
  IN  IF s = 0 \/ k = 0 THEN [threw |-> TRUE, map |-> map]
      ELSE IF idx = 0 THEN [threw |-> FALSE, map |-> map]
      ELSE IF left = <<>>
        THEN [threw |-> FALSE,
              map |-> [map EXCEPT ![s].value = spliceOne(map[s].value, k)]]
      ELSE [threw |-> FALSE,
            map |-> [map EXCEPT ![s].value[k].value = left]]

\* The loop of removeBindings from binding i on.
RECURSIVE removeLoop(_, _, _)
removeLoop(maps, bindings, i) ==
  IF i > Len(bindings) THEN [threw |-> FALSE, maps |-> maps]
  ELSE
    LET bin == bindings[i]
        scope == IF bin.selector = "" THEN "*" ELSE bin.selector
        r1 == removeItem(maps.sequences, scope, normaliseModifiers(bin.keys),
                         bin.command)
        r2 == removeItem(maps.commands, scope, bin.command, bin.keys)
    IN  IF r1.threw THEN [threw |-> TRUE, maps |-> maps]
        ELSE IF r2.threw
          THEN [threw |-> TRUE,
                maps |-> [sequences |-> r1.map, commands |-> maps.commands]]
        ELSE removeLoop([sequences |-> r1.map, commands |-> r2.map],
                        bindings, i + 1)

\* The value of BindingDisposable._bindings after dispose.
Null == <<>>

\* BindingDisposable.dispose of the i-th disposable returned.
disposeBinding(i) ==
  LET r == removeLoop([sequences |-> _scopeSequenceMap,
                       commands |-> _scopeCommandMap], handles[i], 1)
  IN
  /\ lastOp' = "unregister"
  /\ invoked' = <<>>
  /\ prevented' = FALSE
  /\ UNCHANGED <<listening, _timeoutState, _timeoutObj, scheduled, typed>>
  /\ UNCHANGED <<_bindings, _sequence, _exactData, _timer, bindingId, other,
                 callVars>>
  /\ IF handles[i] = Null THEN
       /\ path' = "disposed"
       /\ UNCHANGED <<_scopeSequenceMap, _scopeCommandMap, handles>>
     ELSE
       /\ _scopeSequenceMap' = r.maps.sequences
       /\ _scopeCommandMap' = r.maps.commands
       /\ IF r.threw
            THEN path' = "threw" /\ UNCHANGED handles
          ELSE path' = "removed" /\ handles' = [handles EXCEPT ![i] = Null]

\* hasShortcut(value, scope).
hasShortcut(value, scope) ==
  /\ entryOf(_scopeSequenceMap, scope) # 0
  /\ entryOf(_scopeSequenceMap[entryOf(_scopeSequenceMap, scope)].value,
             normaliseModifiers(value)) # 0

\* The value undefined where a map is expected.
Undefined == << [key |-> "undefined", value |-> <<>>] >>

\* The statement dispose makes about a map: a comparison with undefined,
\* which assigns nothing.
compareWithUndefined(map) == map

\* KeymapManager.isDisposed.
isDisposed == _scopeSequenceMap = Undefined

\* KeymapManager.dispose.
disposeManager ==
  /\ listening' = FALSE
  /\ scheduled' = scheduled \ {_timeoutObj}
  /\ _timeoutObj' = 0
  /\ _timeoutState' = ""
  /\ _scopeSequenceMap' = compareWithUndefined(_scopeSequenceMap)
  /\ _scopeCommandMap' = compareWithUndefined(_scopeCommandMap)
  /\ invoked' = <<>>
  /\ prevented' = FALSE
  /\ lastOp' = "shutdown"
  /\ path' = ""
  /\ UNCHANGED <<handles, typed>>
  /\ UNCHANGED <<_bindings, _sequence, _exactData, _timer, bindingId, other,
                 callVars>>

\* _getModifierStringForEvent, as the list mods it joins.
getModifierStringForEvent(event) ==
  (IF event.ctrlKey THEN <<"ctrl">> ELSE <<>>)
  \o (IF event.altKey THEN <<"alt">> ELSE <<>>)
  \o (IF event.shiftKey THEN <<"shift">> ELSE <<>>)

\* _matchingSelectorMap(value): the loop variable of its inner for-in is
\* the parameter value, so every sequence of every scope is copied.
matchingSelectorMap(map, value) == map

\* The element the while loop of _evtKeyDown stops at, NoElement for null.
RECURSIVE closestMatching(_, _)
closestMatching(currElem, prop) ==
  IF currElem = NoElement THEN NoElement
  ELSE IF matchesSelector(currElem, prop) THEN currElem
  ELSE closestMatching(parentElement(currElem), prop)

\* The for-in loop of _evtKeyDown over the scopes of reduced, from entry p
\* on: the commands emitted.
RECURSIVE emitLoop(_, _, _, _)
emitLoop(reduced, p, target, joinedKey) ==
  IF p > Len(reduced) THEN <<>>
  ELSE
    LET k == entryOf(reduced[p].value, joinedKey) IN
    IF closestMatching(target, reduced[p].key) # NoElement /\ k # 0
      THEN reduced[p].value[k].value
           \o emitLoop(reduced, p + 1, target, joinedKey)
    ELSE emitLoop(reduced, p + 1, target, joinedKey)

\* The prefix _evtKeyDown stores when no command was emitted.
afterNoMatch(joinedKey, modsKey, timeoutState) == joinedKey

\* The keystrokes of the pending chord prefix.
pendingKeystrokes == IF _timeoutState = "" THEN <<>> ELSE typed

\* _evtKeyDown.
evtKeyDown(event) ==
  LET mods == getModifierStringForEvent(event)
      keyStr == getKeyChars(event.keyCode)
      modsKey == normaliseModifiers(<< mods \o keyStr >>)
      prefix == IF _timeoutState # "" THEN _timeoutState \o " " ELSE ""
      joinedKey == prefix \o modsKey
      reduced == matchingSelectorMap(_scopeSequenceMap, joinedKey)
      emitted == emitLoop(reduced, 1, event.target, joinedKey)
      cleared == IF _timeoutObj # 0 THEN scheduled \ {_timeoutObj} ELSE scheduled
      h == setTimeout(cleared, _timeoutObj)
  IN
  /\ listening
  /\ Len(pendingKeystrokes) < MaxBuffer
  /\ lastOp' = "keydown"
  /\ UNCHANGED <<_scopeSequenceMap, _scopeCommandMap, listening, handles>>
  /\ UNCHANGED <<_bindings, _sequence, _exactData, _timer, bindingId, other,
                 callVars>>
  /\ IF mods = <<>> THEN
       /\ path' = "nomodifier"
       /\ invoked' = <<>>
       /\ prevented' = FALSE
       /\ UNCHANGED <<_timeoutState, _timeoutObj, scheduled, typed>>
     ELSE IF keyStr = <<>> THEN
       /\ path' = "nokey"
       /\ invoked' = <<>>
       /\ prevented' = FALSE
       /\ UNCHANGED <<_timeoutState, _timeoutObj, scheduled, typed>>
     ELSE IF emitted # <<>> THEN
       /\ path' = "emit"
       /\ invoked' = emitted
       /\ prevented' = TRUE
       /\ scheduled' = cleared
       /\ _timeoutObj' = 0
       /\ _timeoutState' = ""
       /\ typed' = Append(pendingKeystrokes, modsKey)
     ELSE
       /\ path' = "prefix"
       /\ invoked' = <<>>
       /\ prevented' = FALSE
       /\ _timeoutState' = afterNoMatch(joinedKey, modsKey, _timeoutState)
       /\ _timeoutObj' = h
       /\ scheduled' = cleared \cup {h}
       /\ typed' = Append(pendingKeystrokes, modsKey)

\* The callback of the timeout _evtKeyDown arms.
signalTimerCallback(t) ==
  /\ t \in scheduled
  /\ scheduled' = scheduled \ {t}
  /\ _timeoutObj' = 0
  /\ _timeoutState' = ""
  /\ invoked' = <<>>
  /\ prevented' = FALSE
  /\ lastOp' = "timeout"
  /\ path' = ""
  /\ typed' = <<>>
  /\ UNCHANGED <<_scopeSequenceMap, _scopeCommandMap, listening, handles>>
  /\ UNCHANGED <<_bindings, _sequence, _exactData, _timer, bindingId, other,
                 callVars>>

\* The bindings registered: the keystroke "Ctrl-A" in the default scope,
\* the same keystroke written "ctrl-a" for the same command, and the chord
\* "Ctrl-b Ctrl-A" in the scope "#out".
SignalInputs ==
  { [keys |-> << <<"Ctrl", "A">> >>, command |-> "cmd:a", selector |-> ""],
    [keys |-> << <<"ctrl", "a">> >>, command |-> "cmd:a", selector |-> ""],
    [keys |-> << <<"Ctrl", "b">>, <<"Ctrl", "A">> >>, command |-> "cmd:ba",
     selector |-> "#out"] }

\* The arrays handed to registerBindings: one binding, or two bindings of
\* one keystroke and one command.
SignalBatches ==
  { << bin >> : bin \in SignalInputs }
  \cup { << [keys |-> << <<"Ctrl", "A">> >>, command |-> "cmd:a",
             selector |-> ""],
           [keys |-> << <<"ctrl", "a">> >>, command |-> "cmd:a",
             selector |-> ""] >> }

\* The keydown events the document listener receives.
SignalEvents ==
  [keyCode : {65, 66, 0}, ctrlKey : BOOLEAN, altKey : {FALSE},
   shiftKey : {FALSE}, metaKey : {FALSE}, target : Elements,
   currentTarget : {1}]

Register == \E bindings \in SignalBatches : registerBindings(bindings)

Unregister == \E i \in 1..Len(handles) : disposeBinding(i)

Shutdown == disposeManager

SignalKeydown == \E event \in SignalEvents : evtKeyDown(event)

SignalTimeout == \E t \in scheduled : signalTimerCallback(t)

SignalNext ==
  Register \/ Unregister \/ Shutdown \/ SignalKeydown \/ SignalTimeout

SignalSpec == Init /\ [][SignalNext]_vars

-----------------------------------------------------------------------------
(* normalizeKeystroke applied to a keystroke text.                         *)

\* The pieces the texts handed to the "-" dialect and to the "+" dialect
\* are written with.
DashPieces == {"Ctrl", "alt", "-", "a", "constructor"}
PlusPieces == {"Ctrl", "alt", "+", "a", "constructor"}

\* The texts of at most MaxPieces pieces.
Texts(pieces) == UNION { [1..n -> pieces] : n \in 0..MaxPieces }

\* The manager fields are not part of a call of a function on its own.
NoManager ==
  /\ _bindings = <<>>
  /\ _sequence = <<>>
  /\ _exactData = <<>>
  /\ _timer = 0
  /\ scheduled = {}
  /\ handles = <<>>
  /\ bindingId = 0
  /\ invoked = <<>>
  /\ prevented = FALSE
  /\ path = ""
  /\ typed = <<>>
  /\ other = <<>>
  /\ _scopeSequenceMap = <<>>
  /\ _scopeCommandMap = <<>>
  /\ listening = TRUE
  /\ _timeoutState = ""
  /\ _timeoutObj = 0

managerVars == <<_bindings, _sequence, _exactData, _timer, scheduled, handles,
                 bindingId, invoked, prevented, path, typed, other>>

\* The text about to be normalized and the dialect it is handed to.
NormInit ==
  /\ NoManager
  /\ lastOp = "new"
  /\ output = <<>>
  /\ \/ \E text \in Texts(DashPieces) : input = [keystroke |-> text, sep |-> "-"]
     \/ \E text \in Texts(PlusPieces) : input = [keystroke |-> text, sep |-> "+"]

\* The call normalizeKeystroke(keystroke) of the dialect.
callNormalize(keystroke, sep) ==
  IF sep = "-" THEN normalizeKeystroke(keystroke)
  ELSE normalizeKeystrokePlus(keystroke)

\* The text is normalized.
normalize ==
  /\ lastOp = "new"
  /\ output' = << callNormalize(input.keystroke, input.sep) >>
  /\ lastOp' = "normalize"
  /\ UNCHANGED <<input, managerVars, signalVars>>

\* The text a call returned is normalized in its turn.
normalizeAgain ==
  /\ lastOp = "normalize"
  /\ output[1].ok
  /\ input' = [input EXCEPT !.keystroke = output[1].pieces]
  /\ output' = << callNormalize(output[1].pieces, input.sep) >>
  /\ lastOp' = "renormalize"
  /\ UNCHANGED <<managerVars, signalVars>>

NormNext == normalize \/ normalizeAgain

NormSpec == NormInit /\ [][NormNext]_vars

-----------------------------------------------------------------------------
(* normaliseModifiers of src/src/index.ts applied to a text.               *)

\* The pieces the texts handed to normaliseModifiers are written with.
ModifierPieces == {" ", "-", "Ctrl", "shift", "a"}

\* The text about to be normalised.
ModsInit ==
  /\ NoManager
  /\ lastOp = "new"
  /\ output = <<>>
  /\ \E text \in Texts(ModifierPieces) : input = [keys |-> text]

\* The text is normalised.
normalise ==
  /\ lastOp = "new"
  /\ output' = << normaliseText(input.keys) >>
  /\ lastOp' = "normalise"
  /\ UNCHANGED <<input, managerVars, signalVars>>

\* The text the call returned is normalised in its turn.
normaliseAgain ==
  /\ lastOp = "normalise"
  /\ output' = Append(output, normaliseText(output[1]))
  /\ lastOp' = "renormalise"
  /\ UNCHANGED <<input, managerVars, signalVars>>

ModsNext == normalise \/ normaliseAgain

ModsSpec == ModsInit /\ [][ModsNext]_vars

-----------------------------------------------------------------------------
(* A keystroke text and a keydown event, each turned into the keystroke    *)
(* string the manager of src/src/manager.ts compares.                      *)

\* The pieces of the texts and the events they are compared with.
EventPieces == {"Ctrl", "alt", "-", "A"}

EventInputs ==
  [keyCode : {65, 189}, ctrlKey : BOOLEAN, altKey : BOOLEAN,
   shiftKey : {FALSE}, metaKey : {FALSE}, target : {1}, currentTarget : {1}]

EventInit ==
  /\ NoManager
  /\ lastOp = "new"
  /\ output = <<>>
  /\ \E text \in Texts(EventPieces), event \in EventInputs :
       input = [keystroke |-> text, event |-> event]

\* normalizeKeystroke(keystroke), as add calls it on a binding's keystroke.
normalizeText ==
  /\ lastOp = "new"
  /\ output' = << normalizeKeystroke(input.keystroke) >>
  /\ lastOp' = "normalize"
  /\ UNCHANGED <<input, managerVars, signalVars>>

\* keystrokeForKeydownEvent(event), as processKeydownEvent calls it.
keystrokeOfEvent ==
  /\ lastOp = "normalize"
  /\ output' = Append(output, keystrokeForKeydownEvent(input.event))
  /\ lastOp' = "event"
  /\ UNCHANGED <<input, managerVars, signalVars>>

EventNext == normalizeText \/ keystrokeOfEvent

EventSpec == EventInit /\ [][EventNext]_vars

-----------------------------------------------------------------------------
(* normalizeKeystroke(keystroke, layout) of src/src/keyboard.ts applied to *)
(* a keystroke text.                                                       *)

\* The pieces the texts are written with.
SpacePieces == {" ", "Ctrl", "Cmd", "Accel", "Shift", "A"}

\* The keycaps of the layout handed to the function.
LayoutKeycaps == {"A"}

\* The text about to be normalized, on a Mac or on another platform.
LayoutInit ==
  /\ NoManager
  /\ lastOp = "new"
  /\ output = <<>>
  /\ \E text \in Texts(SpacePieces), mac \in BOOLEAN :
       input = [keystroke |-> text, layout |-> LayoutKeycaps, IS_MAC |-> mac]

\* The call normalizeKeystroke(keystroke, layout).
normalizeLayout ==
  /\ lastOp = "new"
  /\ output' = << normalizeKeystrokeLayout(input.keystroke, input.layout,
                                           input.IS_MAC) >>
  /\ lastOp' = "normalize"
  /\ UNCHANGED <<input, managerVars, signalVars>>

LayoutNext == normalizeLayout

LayoutSpec == LayoutInit /\ [][LayoutNext]_vars

-----------------------------------------------------------------------------
(* Vocabulary of the properties. *)

\* p is a prefix of s.
IsPrefix(p, s) ==
  /\ Len(p) <= Len(s)
  /\ \A i \in 1..Len(p) : p[i] = s[i]

\* s strictly extends p.
Extends(s, p) == IsPrefix(p, s) /\ Len(p) < Len(s)

\* Some registered binding has exactly the key sequence buf.
SomeExact(buf) == \E i \in 1..Len(_bindings) : _bindings[i].sequence = buf

\* Some registered binding strictly extends buf.
SomePartial(buf) ==
  \E i \in 1..Len(_bindings) : Extends(_bindings[i].sequence, buf)

\* The identities of the ex bindings of an array.
ObjsOf(array) == { array[i].obj : i \in 1..Len(array) }

-----------------------------------------------------------------------------
(* C4: a keystroke after which no binding matches the buffer exactly or    *)
(* partially empties the buffer, drops the remembered exact set and        *)
(* cancels the timer without invoking a handler or consuming the event,    *)
(* and the keystroke after it is matched as a one-keystroke sequence.      *)

\* The last operation was a keydown whose keystroke left the buffer
\* matching no registered binding, exactly or partially.
MatchedNothing ==
  /\ lastOp = "keydown"
  /\ typed # <<>>
  /\ ~SomeExact(typed)
  /\ ~SomePartial(typed)

C4_NoMatchClears ==
  [][ /\ MatchedNothing' =>
           (Idle' /\ invoked' = <<>> /\ ~prevented')
      /\ (MatchedNothing /\ lastOp' = "keydown" /\ typed' # <<>>) =>
           Len(typed') = 1
    ]_vars

\* A keystroke that matched nothing has just cleared a pending chord.
C4_Witness ==
  /\ lastOp = "keydown" /\ path = "none"
  /\ Len(typed) = 3
  /\ Idle
  /\ invoked = <<>>

-----------------------------------------------------------------------------
(* C5: a keystroke after which some binding strictly extends the buffer    *)
(* invokes no handler during that call, even when exact matches exist,     *)
(* marks the event consumed, keeps the buffer, and leaves exactly one      *)
(* freshly started timer armed, the earlier one cancelled.                 *)

C5_PartialConsumes ==
  [][ ( /\ lastOp' = "keydown"
        /\ typed' # <<>>
        /\ SomePartial(typed') )
      => ( /\ invoked' = <<>>
           /\ prevented'
           /\ _sequence' = typed'
           /\ Len(_sequence') = Len(_sequence) + 1
           /\ IsPrefix(_sequence, _sequence')
           /\ _timer' # 0
           /\ _timer' # _timer
           /\ scheduled' = {_timer'} )
    ]_vars

\* The second keystroke of a chord has both exact and longer matches: the
\* timer was restarted and nothing was invoked.
C5_Witness ==
  /\ lastOp = "keydown"
  /\ Len(typed) = 2
  /\ SomeExact(typed)
  /\ SomePartial(typed)
  /\ _sequence = typed
  /\ _timer = 2
  /\ prevented
  /\ invoked = <<>>

-----------------------------------------------------------------------------
(* C6: when the timer fires and no exact set is remembered, no handler is  *)
(* invoked and the manager is back to Idle.                                *)

C6_TimeoutWithoutExact ==
  [][ (lastOp' = "timeout" /\ _exactData = <<>>)
      => (invoked' = <<>> /\ ~prevented' /\ Idle')
    ]_vars

\* The timer has fired on a chord of which only partial matches were ever
\* pending: every binding ever registered is still registered and is three
\* keystrokes long.
C6_Witness ==
  /\ lastOp = "timeout"
  /\ path = "nodata"
  /\ Len(_bindings) > 0
  /\ Len(_bindings) = Allocated
  /\ \A m \in 1..Len(_bindings) : Len(_bindings[m].sequence) = 3
  /\ Idle

-----------------------------------------------------------------------------
(* C7: at most one ambiguity timer is outstanding, and it is the one the   *)
(* manager holds in _timer: a cancelled or superseded timeout is no longer *)
(* on the host's queue, so its callback never runs.                        *)

C7_OneTimer ==
  /\ Cardinality(scheduled) <= 1
  /\ scheduled = IF _timer = 0 THEN {} ELSE {_timer}

\* The timer has been restarted: the first timeout was superseded.
C7_Witness ==
  /\ Len(_sequence) = 2
  /\ _timer = 2
  /\ scheduled = {2}

-----------------------------------------------------------------------------
(* C1: with one binding for a sequence S and one for S followed by a       *)
(* keystroke k registered, both with selectors matching the event target:  *)
(* the keystrokes of S invoke nothing; the timer firing after S invokes    *)
(* the S binding once and not the longer one; k delivered after S, before  *)
(* the timer fires, invokes the longer binding once and not the S binding, *)
(* and leaves nothing pending that a later timer fire could dispatch.      *)

\* The registry holds, from one add call and with nothing removed, exactly
\* the binding at index i and the binding at index j whose sequence is that
\* of i followed by one keystroke.
PairRegistered(i, j) ==
  /\ Len(handles) = 1
  /\ _bindings = handles[1]
  /\ Len(_bindings) = 2
  /\ {i, j} = {1, 2}
  /\ Len(_bindings[j].sequence) = Len(_bindings[i].sequence) + 1
  /\ IsPrefix(_bindings[i].sequence, _bindings[j].sequence)

C1_ShortOrLong ==
  [][ \A i, j \in 1..2 : PairRegistered(i, j) =>
        LET short == _bindings[i]
            long == _bindings[j]
            bothMatch(target) ==
              /\ matchesSelector(target, short.selector)
              /\ matchesSelector(target, long.selector)
        IN
        /\ ( /\ lastOp' = "keydown"
             /\ typed' # <<>>
             /\ IsPrefix(typed', short.sequence) )
           => invoked' = <<>>
        /\ ( /\ lastOp' = "timeout"
             /\ _sequence = short.sequence
             /\ _exactData # <<>> => bothMatch(_exactData[1].event.target) )
           => (invoked' = <<short.obj>> /\ Idle')
        /\ ( /\ lastOp' = "keydown"
             /\ _sequence = short.sequence
             /\ typed' = long.sequence )
           => \A ev \in KeydownEvents :
                (processKeydownEvent(ev) /\ bothMatch(ev.target))
                => (invoked' = <<long.obj>> /\ Idle')
    ]_vars

\* The longer binding of such a pair has just been invoked by its last
\* keystroke.
C1_Witness ==
  /\ PairRegistered(1, 2)
  /\ lastOp = "keydown"
  /\ typed = _bindings[2].sequence
  /\ invoked = <<_bindings[2].obj>>
  /\ Idle

-----------------------------------------------------------------------------
(* C2: when the disposable returned by add is disposed while a chord is    *)
(* pending, the following timer fire invokes no binding that was removed.  *)

C2_RemovedNotInvoked ==
  lastOp = "timeout" =>
    \A n \in 1..Len(invoked) : invoked[n] \in ObjsOf(_bindings)

-----------------------------------------------------------------------------
(* C3: among the candidates for one sequence whose selectors match the     *)
(* same element, findBestMatch chooses the one of highest specificity and, *)
(* among those of equal highest specificity, the one registered last; a    *)
(* binding invoked by a keydown is such a choice for some element.         *)

\* The registered bindings for the key sequence buf, in registry order.
CandidatesFor(buf) == SelectSeq(_bindings, LAMBDA b : b.sequence = buf)

\* b ranks below c: lower specificity, or equal specificity and created
\* earlier.
RanksBelow(b, c) ==
  \/ b.specificity < c.specificity
  \/ b.specificity = c.specificity /\ b.obj < c.obj

\* exb is the best candidate of cands for the element elem.
IsBestFor(exb, cands, elem) ==
  /\ \E n \in 1..Len(cands) : cands[n] = exb
  /\ matchesSelector(elem, exb.selector)
  /\ \A n \in 1..Len(cands) :
       (matchesSelector(elem, cands[n].selector) /\ cands[n].obj # exb.obj)
       => RanksBelow(cands[n], exb)

C3_BestMatch ==
  /\ \A m \in 1..Len(_bindings) : \A elem \in Elements :
       LET cands == CandidatesFor(_bindings[m].sequence)
           best == findBestMatch(cands, elem)
       IN  IF \E n \in 1..Len(cands) : matchesSelector(elem, cands[n].selector)
             THEN best # <<>> /\ IsBestFor(best[1], cands, elem)
           ELSE best = <<>>
  /\ (lastOp = "keydown" /\ invoked # <<>>) =>
       \E m \in 1..Len(_bindings) : \E elem \in Elements :
         /\ _bindings[m].obj = invoked[1]
         /\ IsBestFor(_bindings[m], CandidatesFor(typed), elem)

\* A keydown has invoked the later of two bindings for one sequence which
\* have the same selector, and a third candidate of lower specificity
\* matched too.
C3_Witness ==
  /\ lastOp = "keydown"
  /\ Len(_bindings) = 3
  /\ \A m \in 1..3 : _bindings[m].sequence = typed
  /\ _bindings[1].selector = "#out"
  /\ _bindings[2].selector = "#out"
  /\ _bindings[3].selector = "*"
  /\ invoked = <<_bindings[2].obj>>

-----------------------------------------------------------------------------
(* C8: a keystroke that leaves partial matches remembers its exact set,    *)
(* when it has one, with its event, overwriting the set remembered before, *)
(* and otherwise leaves the remembered set alone; the timer firing with a  *)
(* set remembered dispatches that set once, walking up from the target of  *)
(* the remembered event, and leaves the manager Idle.                      *)

\* Some element from elem up to the root has a matching candidate.
RECURSIVE SomeMatchFrom(_, _)
SomeMatchFrom(cands, elem) ==
  IF elem = NoElement THEN FALSE
  ELSE \/ \E n \in 1..Len(cands) : matchesSelector(elem, cands[n].selector)
       \/ SomeMatchFrom(cands, parentElement(elem))

C8_TimeoutDispatchesLatestExact ==
  [][ /\ ( /\ lastOp' = "keydown"
           /\ typed' # <<>>
           /\ SomePartial(typed')
           /\ SomeExact(typed') )
         => ( /\ _exactData' # <<>>
              /\ _exactData'[1].exact = CandidatesFor(typed')
              /\ \A ev \in KeydownEvents :
                   processKeydownEvent(ev) => _exactData'[1].event = ev )
      /\ ( /\ lastOp' = "keydown"
           /\ typed' # <<>>
           /\ SomePartial(typed')
           /\ ~SomeExact(typed') )
         => _exactData' = _exactData
      /\ ( /\ lastOp' = "timeout"
           /\ _exactData # <<>> )
         => LET data == _exactData[1] IN
            /\ Idle'
            /\ Len(invoked') <= 1
            /\ ObjsOf(data.exact) # {}
            /\ \A n \in 1..Len(invoked') : invoked'[n] \in ObjsOf(data.exact)
            /\ invoked' # <<>> => SomeMatchFrom(data.exact, data.event.target)
            /\ \A n \in 1..Len(data.exact) :
                 matchesSelector(data.event.target, data.exact[n].selector)
                 => \E m \in 1..Len(data.exact) :
                      /\ invoked' = <<data.exact[m].obj>>
                      /\ matchesSelector(data.event.target,
                                         data.exact[m].selector)
    ]_vars

\* The timer has dispatched the exact set of the second keystroke of a
\* chord, which had overwritten the exact set of the first keystroke.
C8_Witness ==
  /\ lastOp = "timeout"
  /\ path = "data"
  /\ Len(_bindings) = 3
  /\ Len(_bindings) = Allocated
  /\ \A m \in 1..3 : Len(_bindings[m].sequence) = m
  /\ invoked = <<_bindings[2].obj>>
  /\ Idle

-----------------------------------------------------------------------------
(* C9: a keystroke after which the buffer has exact matches and no partial *)
(* match dispatches that exact set during the call and leaves the manager  *)
(* Idle; the keystroke after it starts a new buffer, so repeating the last *)
(* keystroke of a chord does not invoke the chord again.                   *)

\* The last operation was a keydown whose keystroke left the buffer with
\* exact matches only.
MatchedExactOnly ==
  /\ lastOp = "keydown"
  /\ typed # <<>>
  /\ SomeExact(typed)
  /\ ~SomePartial(typed)

C9_ExactDispatchesNow ==
  [][ /\ MatchedExactOnly' =>
           ( /\ Idle'
             /\ Len(invoked') <= 1
             /\ \A n \in 1..Len(invoked') :
                  invoked'[n] \in ObjsOf(CandidatesFor(typed'))
             /\ prevented' <=> invoked' # <<>>
             /\ \A ev \in KeydownEvents : processKeydownEvent(ev) =>
                  (invoked' # <<>> <=>
                     \E n \in 1..Len(_bindings) :
                       /\ _bindings[n].sequence = typed'
                       /\ \/ matchesSelector(ev.target, _bindings[n].selector)
                          \/ /\ ev.currentTarget # ev.target
                             /\ matchesSelector(parentElement(ev.target),
                                                _bindings[n].selector)) )
      /\ (MatchedExactOnly /\ lastOp' = "keydown" /\ typed' # <<>>) =>
           ( /\ Len(typed') = 1
             /\ \A n \in 1..Len(invoked') : \A m \in 1..Len(_bindings) :
                  _bindings[m].obj = invoked'[n] =>
                    _bindings[m].sequence = typed' )
    ]_vars

\* The last keystroke of a two-keystroke chord has invoked the chord.
C9_Witness ==
  /\ lastOp = "keydown"
  /\ path = "exact"
  /\ Len(typed) = 2
  /\ Len(invoked) = 1
  /\ \E m \in 1..Len(_bindings) :
       _bindings[m].obj = invoked[1] /\ _bindings[m].sequence = typed
  /\ prevented
  /\ Idle

-----------------------------------------------------------------------------
(* C10: under fairness of the timer callback, a manager with keystrokes    *)
(* pending eventually comes back to Idle.                                  *)

C10_PendingLeadsToIdle == Pending ~> Idle

\* The timer callback has brought a pending chord back to Idle and
\* dispatched the remembered exact set.
C10_Witness ==
  /\ lastOp = "timeout"
  /\ path = "data"
  /\ invoked # <<>>
  /\ Idle

-----------------------------------------------------------------------------
(* C11: add on a batch of valid and invalid bindings appends exactly the   *)
(* valid ones to the registry, in their input order and after every        *)
(* binding registered before; each invalid one (invalid selector, empty    *)
(* sequence, null handler, a keystroke that does not normalize) is dropped *)
(* on its own, and the call returns a handle for the accepted ones.        *)

\* The binding passes the four validations.
IsValidBinding(b) ==
  /\ isSelectorValid(b.selector)
  /\ b.sequence # <<>>
  /\ b.handler # ""
  /\ \A i \in 1..Len(b.sequence) : normalizeKeystroke(b.sequence[i]).ok

\* The ex binding exb was made from the user binding b.
MadeFrom(exb, b) ==
  /\ exb.selector = b.selector
  /\ exb.handler = b.handler
  /\ Len(exb.sequence) = Len(b.sequence)
  /\ \A i \in 1..Len(b.sequence) :
       exb.sequence[i] = normalizeKeystroke(b.sequence[i]).value

C11_AddKeepsValid ==
  [][ lastOp' = "add" =>
        \A bindings \in MixedBatches : add(bindings) =>
          LET valid == SelectSeq(bindings, IsValidBinding)
              old == Len(_bindings)
          IN  /\ Len(_bindings') = old + Len(valid)
              /\ SubSeq(_bindings', 1, old) = _bindings
              /\ \A n \in 1..Len(valid) : MadeFrom(_bindings'[old + n], valid[n])
              /\ Len(handles') = Len(handles) + 1
              /\ handles'[Len(handles')] = SubSeq(_bindings', old + 1, old + Len(valid))
    ]_vars

\* A second add call has dropped a binding of its batch and appended the
\* other one behind the binding registered first.
C11_Witness ==
  /\ lastOp = "add"
  /\ path = "dropped"
  /\ Len(handles) = 2
  /\ Len(handles[1]) = 1
  /\ Len(handles[2]) = 1
  /\ _bindings = handles[1] \o handles[2]

-----------------------------------------------------------------------------
(* C12: disposing the handle returned by one add call removes from the     *)
(* registry exactly the bindings that call accepted; the bindings of every *)
(* other add call stay registered in unchanged relative order, also when   *)
(* one of them has the same selector, sequence and handler as a removed    *)
(* one.                                                                    *)

\* Two ex bindings made from equal user bindings.
SameBinding(x, y) ==
  /\ x.selector = y.selector
  /\ x.sequence = y.sequence
  /\ x.handler = y.handler

C12_DisposeRemovesOwn ==
  [][ lastOp' = "dispose" =>
        \A h \in 1..Len(handles) : dispose(h) =>
          LET own == ObjsOf(handles[h]) IN
          /\ handles' = handles
          /\ ObjsOf(_bindings') = ObjsOf(_bindings) \ own
          /\ _bindings' = SelectSeq(_bindings, LAMBDA b : b.obj \notin own)
          /\ \A k \in 1..Len(handles) : \A n \in 1..Len(handles[k]) :
               (k # h /\ handles[k][n].obj \in ObjsOf(_bindings))
               => handles[k][n].obj \in ObjsOf(_bindings')
    ]_vars

\* Two add calls registered equal bindings; the handle of the first has
\* been disposed and the binding of the second is still registered.
C12_Witness ==
  /\ lastOp = "dispose"
  /\ path = ""
  /\ Len(handles) = 2
  /\ Len(handles[1]) = 1
  /\ Len(handles[2]) = 1
  /\ SameBinding(handles[1][1], handles[2][1])
  /\ _bindings = handles[2]

-----------------------------------------------------------------------------
(* C13: disposing a handle a second time changes nothing: the registry,    *)
(* the keystroke buffer, the remembered exact set, the timer and the       *)
(* bindings of every handle are as the first disposal left them.           *)

\* The handle of the h-th add call accepted bindings and has been disposed:
\* only its own dispose removes its bindings from the registry.
AlreadyDisposed(h) ==
  /\ handles[h] # <<>>
  /\ ObjsOf(handles[h]) \cap ObjsOf(_bindings) = {}

C13_DisposeTwice ==
  [][ lastOp' = "dispose" =>
        \A h \in 1..Len(handles) : (AlreadyDisposed(h) /\ dispose(h)) =>
          /\ _bindings' = _bindings
          /\ handles' = handles
          /\ UNCHANGED <<_sequence, _exactData, _timer, scheduled>>
    ]_vars

\* The handle of the first of two add calls has been disposed again while
\* a chord was pending and the binding of the second call was registered.
C13_Witness ==
  /\ lastOp = "dispose"
  /\ path = "again"
  /\ Len(handles) = 2
  /\ handles[1] # <<>>
  /\ _bindings = handles[2]
  /\ _bindings # <<>>
  /\ Pending
  /\ _timer # 0

-----------------------------------------------------------------------------
(* C14: in the id-carrying engine every accepted binding has an insertion  *)
(* id strictly greater than the id of every binding accepted before it,    *)
(* whether that one is still registered or was removed; the id of a        *)
(* removed binding is never given again, and a rejected binding takes no   *)
(* place in the order of the accepted ones.                                *)

\* The binding n of add call k was accepted before the binding m of add
\* call j.
AcceptedBefore(k, n, j, m) == k < j \/ (k = j /\ n < m)

C14_IdsIncrease ==
  /\ \A k, j \in 1..Len(handles) :
       \A n \in 1..Len(handles[k]) : \A m \in 1..Len(handles[j]) :
         AcceptedBefore(k, n, j, m) => handles[k][n].id < handles[j][m].id
  /\ \A k \in 1..Len(handles) : \A n \in 1..Len(handles[k]) :
       handles[k][n].id < bindingId
  /\ \A i, j \in 1..Len(_bindings) :
       i < j => _bindings[i].id < _bindings[j].id

\* The binding of a first add call has been removed, and a second add call
\* that rejected one binding of its batch has accepted another.
C14_Witness ==
  /\ lastOp = "add"
  /\ path = "dropped"
  /\ Len(handles) = 2
  /\ Len(handles[1]) = 1
  /\ Len(handles[2]) = 1
  /\ _bindings = handles[2]
  /\ handles[2][1].id > handles[1][1].id

-----------------------------------------------------------------------------
(* C15: add, called with keystrokes pending or not and with any mix of     *)
(* valid and invalid bindings, leaves the keystroke buffer, the remembered *)
(* exact set and the timer as they were; a binding that failed validation  *)
(* is never in the registry, in a match result or invoked.                 *)

\* The ex binding was made from a user binding that passes validation.
Admitted(exb) ==
  \E b \in MixedInputs : IsValidBinding(b) /\ MadeFrom(exb, b)

C15_AddLeavesPendingState ==
  [][ /\ lastOp' = "add" =>
           UNCHANGED <<_sequence, _exactData, _timer, scheduled>>
      /\ \A i \in 1..Len(_bindings') : Admitted(_bindings'[i])
      /\ \A buf \in {_sequence', typed'} :
           LET matches == findSequenceMatches(_bindings', buf) IN
           /\ \A i \in 1..Len(matches.exact) : Admitted(matches.exact[i])
           /\ \A i \in 1..Len(matches.partial) : Admitted(matches.partial[i])
      /\ _exactData' # <<>> =>
           \A i \in 1..Len(_exactData'[1].exact) :
             Admitted(_exactData'[1].exact[i])
      /\ \A n \in 1..Len(invoked') :
           \E k \in 1..Len(handles') : \E m \in 1..Len(handles'[k]) :
             handles'[k][m].obj = invoked'[n] /\ Admitted(handles'[k][m])
    ]_vars

\* An add call that rejected a binding of its batch has returned while a
\* chord was pending with an exact set remembered and the timer armed.
C15_Witness ==
  /\ lastOp = "add"
  /\ path = "dropped"
  /\ Pending
  /\ _exactData # <<>>
  /\ _timer # 0
  /\ scheduled = {_timer}

-----------------------------------------------------------------------------
(* C16: a call of dispatchBindings invokes exactly one handler when the    *)
(* selector of some candidate matches some element of the chain it walks,  *)
(* and otherwise invokes no handler and does not mark the event consumed.  *)

\* The elements dispatchBindings walks for an event: the target and its
\* ancestors up to and including currentTarget, or up to the root when
\* currentTarget is not among them.
RECURSIVE ChainFrom(_, _)
ChainFrom(elem, boundary) ==
  IF elem = NoElement THEN {}
  ELSE IF elem = boundary THEN {elem}
  ELSE {elem} \cup ChainFrom(parentElement(elem), boundary)

WalkedChain(event) == ChainFrom(event.target, event.currentTarget)

\* Some candidate's selector matches some element of the chain.
SomeMatchIn(cands, chain) ==
  \E n \in 1..Len(cands) : \E elem \in chain :
    matchesSelector(elem, cands[n].selector)

\* What the claim allows a dispatch of cands over chain to have done.
OneOrNone(cands, chain, inv, prev) ==
  IF SomeMatchIn(cands, chain)
    THEN /\ Len(inv) = 1
         /\ inv[1] \in ObjsOf(cands)
         /\ prev
  ELSE inv = <<>> /\ ~prev

C16_OneHandlerOrNone ==
  [][ /\ (lastOp' = "keydown" /\ path' = "exact") =>
           \A ev \in KeydownEvents : processKeydownEvent(ev) =>
             OneOrNone(CandidatesFor(typed'), WalkedChain(ev),
                       invoked', prevented')
      /\ (lastOp' = "timeout" /\ path' = "data") =>
           OneOrNone(_exactData[1].exact,
                     WalkedChain(eventAfterDispatch(_exactData[1].event)),
                     invoked', prevented')
    ]_vars

\* A keydown has dispatched the exact matches of a chord and found no
\* element of the walked chain that any of them matches.
C16_Witness ==
  /\ lastOp = "keydown"
  /\ path = "exact"
  /\ Len(typed) = 2
  /\ CandidatesFor(typed) # <<>>
  /\ invoked = <<>>
  /\ ~prevented
  /\ Idle

-----------------------------------------------------------------------------
(* C17: every dispatch, whether made inside processKeydownEvent or later   *)
(* from the timer callback with the stored event, selects a binding only   *)
(* by the event's target and its ancestors up to and including the element *)
(* the caller listened on; no ancestor of that element selects a binding.  *)

\* The chain the claim allows for an event delivered to a listener on
\* event.currentTarget.
BoundedChain(event) == ChainFrom(event.target, event.currentTarget)

\* Every invoked binding of cands matches an element of the chain.
SelectedWithin(cands, chain, inv) ==
  \A n \in 1..Len(inv) :
    \E m \in 1..Len(cands) :
      /\ cands[m].obj = inv[n]
      /\ \E elem \in chain : matchesSelector(elem, cands[m].selector)

C17_WalkStopsAtBoundary ==
  [][ /\ (lastOp' = "keydown" /\ path' = "exact") =>
           \A ev \in KeydownEvents : processKeydownEvent(ev) =>
             SelectedWithin(CandidatesFor(typed'), BoundedChain(ev), invoked')
      /\ (lastOp' = "timeout" /\ path' = "data") =>
           SelectedWithin(_exactData[1].exact,
                          BoundedChain(_exactData[1].event), invoked')
    ]_vars

-----------------------------------------------------------------------------
(* C18: the element nearest to the event target that has a matching        *)
(* candidate decides the winner of a dispatch: the invoked binding matches *)
(* that element, also when a candidate of higher specificity matches only  *)
(* an element further out in the chain.                                    *)

\* Walking outward from elem up to boundary, the first element some
\* candidate matches; NoElement when there is none.
RECURSIVE NearestWithMatch(_, _, _)
NearestWithMatch(cands, elem, boundary) ==
  IF elem = NoElement THEN NoElement
  ELSE IF \E n \in 1..Len(cands) : matchesSelector(elem, cands[n].selector)
    THEN elem
  ELSE IF elem = boundary THEN NoElement
  ELSE NearestWithMatch(cands, parentElement(elem), boundary)

\* The dispatch of cands for event invoked the best candidate of the
\* nearest element that has one.
NearestDecides(cands, event, inv) ==
  LET near == NearestWithMatch(cands, event.target, event.currentTarget) IN
  near # NoElement =>
    /\ Len(inv) = 1
    /\ \E m \in 1..Len(cands) :
         /\ cands[m].obj = inv[1]
         /\ IsBestFor(cands[m], cands, near)

C18_NearestElementWins ==
  [][ /\ (lastOp' = "keydown" /\ path' = "exact") =>
           \A ev \in KeydownEvents : processKeydownEvent(ev) =>
             NearestDecides(CandidatesFor(typed'), ev, invoked')
      /\ (lastOp' = "timeout" /\ path' = "data") =>
           NearestDecides(_exactData[1].exact,
                          eventAfterDispatch(_exactData[1].event), invoked')
    ]_vars

\* The first add call registered "a" on the universal and on the id
\* selector, the second a chord that extends "a"; the timer has dispatched
\* "a" and invoked the universal binding, which matches the target, and not
\* the id binding of higher specificity, which matches only its parent.
C18_Witness ==
  /\ lastOp = "timeout"
  /\ path = "data"
  /\ Len(handles) = 2
  /\ Len(handles[1]) = 2
  /\ Len(handles[2]) = 1
  /\ _bindings = handles[1] \o handles[2]
  /\ handles[1][1].selector = "*"
  /\ handles[1][2].selector = "#out"
  /\ handles[1][1].sequence = handles[1][2].sequence
  /\ Extends(handles[2][1].sequence, handles[1][1].sequence)
  /\ handles[1][1].specificity < handles[1][2].specificity
  /\ invoked = <<handles[1][1].obj>>

-----------------------------------------------------------------------------
(* C19: the handler-veto dispatcher invokes, at each element walking       *)
(* outward from the target, the matching candidates in rank order          *)
(* (specificity descending, then insertion id descending); it stops, and   *)
(* the event is consumed, at the first handler that returns true; a        *)
(* handler that returns false neither stops the walk nor consumes the      *)
(* event: the next candidate and then the next element follow.             *)

\* b ranks above c.
Outranks(b, c) ==
  \/ b.specificity > c.specificity
  \/ b.specificity = c.specificity /\ b.id > c.id

\* The candidates matching elem, highest rank first.
RankedAt(cands, elem) ==
  LET matching == { n \in 1..Len(cands) :
                      matchesSelector(elem, cands[n].selector) }
      order == CHOOSE r \in [1..Cardinality(matching) -> matching] :
                 \A i, j \in 1..Cardinality(matching) :
                   i < j => Outranks(cands[r[i]], cands[r[j]])
  IN  [i \in 1..Cardinality(matching) |-> cands[order[i]]]

\* The candidates in the order a walk from elem up to boundary meets them.
RECURSIVE WalkOrder(_, _, _)
WalkOrder(cands, elem, boundary) ==
  IF elem = NoElement THEN <<>>
  ELSE IF elem = boundary THEN RankedAt(cands, elem)
  ELSE RankedAt(cands, elem)
         \o WalkOrder(cands, parentElement(elem), boundary)

\* The calls the claim prescribes: those of the walk order up to and
\* including the first handler that returns true.
C19_RankOrderUntilTrue ==
  lastOp = "dispatch" =>
    LET cands == _exactData[1].exact
        event == _exactData[1].event
        full == WalkOrder(cands, event.target, event.currentTarget)
        stops == { k \in 1..Len(full) : full[k].handler = "true" }
        last == IF stops = {} THEN Len(full)
                ELSE CHOOSE k \in stops : \A l \in stops : k <= l
    IN  /\ Len(invoked) = last
        /\ \A k \in 1..last : invoked[k] = full[k].obj
        /\ prevented <=> stops # {}

\* Two handlers matching the target returned false, in rank order, and the
\* walk went on to the parent, where the handler of the id selector
\* returned true.
C19_Witness ==
  /\ lastOp = "dispatch"
  /\ Len(_bindings) = 3
  /\ _exactData[1].event.target = 2
  /\ _exactData[1].event.currentTarget = 1
  /\ _bindings[1].selector = "*" /\ _bindings[1].handler = "false"
  /\ _bindings[2].selector = "#out" /\ _bindings[2].handler = "true"
  /\ _bindings[3].selector = "*" /\ _bindings[3].handler = "false"
  /\ invoked = <<3, 1, 2>>
  /\ prevented

-----------------------------------------------------------------------------
(* C20: findSequenceMatches puts a registered binding in exact iff its     *)
(* sequence equals the buffer keystroke by keystroke, in partial iff the   *)
(* buffer is a strict prefix of its sequence, and in neither list          *)
(* otherwise; no binding is in both lists and both keep registry order.    *)

\* The keystroke buffers of up to MaxBuffer keystrokes.
Buffers ==
  UNION { [1..n -> {KEY_CODE_MAP[65], KEY_CODE_MAP[66]}] : n \in 1..MaxBuffer }

\* The array lists ex bindings of the registry in registry order.
InRegistryOrder(array) ==
  \A i, j \in 1..Len(array) :
    i < j => indexOf(_bindings, array[i]) < indexOf(_bindings, array[j])

C20_Classification ==
  \A buf \in Buffers :
    LET matches == findSequenceMatches(_bindings, buf) IN
    /\ \A m \in 1..Len(_bindings) :
         LET b == _bindings[m] IN
         /\ b.obj \in ObjsOf(matches.exact) <=> b.sequence = buf
         /\ b.obj \in ObjsOf(matches.partial) <=> Extends(b.sequence, buf)
    /\ ObjsOf(matches.exact) \cap ObjsOf(matches.partial) = {}
    /\ ObjsOf(matches.exact) \cup ObjsOf(matches.partial) \subseteq ObjsOf(_bindings)
    /\ Cardinality(ObjsOf(matches.exact)) = Len(matches.exact)
    /\ Cardinality(ObjsOf(matches.partial)) = Len(matches.partial)
    /\ InRegistryOrder(matches.exact)
    /\ InRegistryOrder(matches.partial)

\* The keystroke "b" typed after "a" has been matched against a registry
\* with one binding in each class: "a" in neither list, "a b" exact, and
\* "a b a" partial.
C20_Witness ==
  /\ lastOp = "keydown"
  /\ path = "partial"
  /\ Len(typed) = 2
  /\ Len(_bindings) = 3
  /\ \E m \in 1..3 : Len(_bindings[m].sequence) = 1
  /\ Len(findSequenceMatches(_bindings, typed).exact) = 1
  /\ Len(findSequenceMatches(_bindings, typed).partial) = 1

-----------------------------------------------------------------------------
(* C21: normalizeKeystroke of src/src/keystrokes.ts does not depend on the *)
(* order the modifiers are written in.                                     *)

\* The modifier names of the "-" dialect.
ModifierNames == {"ctrl", "alt", "shift", "meta"}

\* The modifiers a text names and the key it ends with.
NamedModifiers(text) ==
  { t \in { split(text, "-")[i] : i \in 1..Len(split(text, "-")) } :
      t \in ModifierNames }

NamedKey(text) == split(text, "-")[Len(split(text, "-"))]

\* The ways of writing the members of a set one after the other.
Orders(S) ==
  { f \in [1..Cardinality(S) -> S] :
      \A i, j \in 1..Cardinality(S) : i # j => f[i] # f[j] }

\* The text that names the modifiers in the given order, then the key.
RECURSIVE Written(_, _)
Written(order, key) ==
  IF order = <<>> THEN << key >>
  ELSE << Head(order), "-" >> \o Written(Tail(order), key)

\* C21: whenever a text normalizes successfully, every text that names the
\* same modifiers in some order, followed by the same key, normalizes
\* successfully and to the identical string.
C21_ModifierOrder ==
  (lastOp = "normalize" /\ input.sep = "-" /\ output[1].ok) =>
    \A order \in Orders(NamedModifiers(input.keystroke)) :
      LET r == normalizeKeystroke(Written(order, NamedKey(input.keystroke)))
      IN  r.ok /\ r.value = output[1].value

\* The text "alt-Ctrl-a" has been normalized to "ctrl-alt-a".
C21_Witness ==
  /\ lastOp = "normalize"
  /\ input = [keystroke |-> <<"alt", "-", "Ctrl", "-", "a">>, sep |-> "-"]
  /\ output[1].ok
  /\ output[1].value = "ctrl-alt-a"

-----------------------------------------------------------------------------
(* C22: normalizeKeystroke of src/src/keystrokes.ts is idempotent.         *)

\* C22: normalizing the text a successful call returned succeeds and
\* returns that same text, also when the key is the "-" character.
C22_Idempotent ==
  (lastOp = "renormalize" /\ input.sep = "-") =>
    output[1].ok /\ output[1].value = join(input.keystroke)

\* The text "ctrl--", whose key is "-", has been normalized a second time.
C22_Witness ==
  /\ lastOp = "renormalize"
  /\ input = [keystroke |-> <<"ctrl", "-", "-">>, sep |-> "-"]
  /\ output[1].ok
  /\ output[1].value = "ctrl--"

-----------------------------------------------------------------------------
(* C23: normalizeKeystroke throws on every malformed text, in the "-"      *)
(* dialect of src/src/keystrokes.ts and in the "+" dialect of              *)
(* src/unnamed/part_006.                                                   *)

\* The modifier names of a dialect.
ModifiersOf(sep) ==
  IF sep = "-" THEN ModifierNames ELSE {"ctrl", "alt", "shift", "cmd"}

\* What token i of the token list T stands for: a modifier, a separator or
\* a primary key.  The separator character stands for the key of that name
\* when it is in the key table and ends the text, alone or right after a
\* separator.
Kind(T, i, sep) ==
  IF T[i] = sep THEN
    IF sep \in KEY_CODE_MAP_INV /\ i = Len(T) /\ (i = 1 \/ T[i - 1] = sep)
      THEN "key" ELSE "sep"
  ELSE IF T[i] \in ModifiersOf(sep) THEN "mod"
  ELSE "key"

Malformed(T, sep) ==
  LET n == Len(T) IN
  \/ \E i, j \in 1..n :                        \* a modifier is duplicated
       i < j /\ Kind(T, i, sep) = "mod" /\ T[i] = T[j]
  \/ \E i, j \in 1..n :                        \* a modifier after the key
       i < j /\ Kind(T, i, sep) = "key" /\ Kind(T, j, sep) = "mod"
  \/ \A i \in 1..n : Kind(T, i, sep) # "key"   \* the key is missing
  \/ \E i \in 1..n :                           \* the key is not in the table
       Kind(T, i, sep) = "key" /\ T[i] \notin KEY_CODE_MAP_INV
  \/ \E i, j \in 1..n :                        \* more than one key
       i < j /\ Kind(T, i, sep) = "key" /\ Kind(T, j, sep) = "key"
  \/ n > 0 /\ Kind(T, 1, sep) = "sep"          \* a leading separator
  \/ n > 0 /\ Kind(T, n, sep) = "sep"          \* a trailing separator
  \/ \E i \in 1..(n - 1) :                     \* a doubled separator
       Kind(T, i, sep) = "sep" /\ Kind(T, i + 1, sep) = "sep"

\* C23: the call made on a malformed text throws.
C23_MalformedThrows ==
  (lastOp = "normalize"
     /\ Malformed(split(input.keystroke, input.sep), input.sep)) =>
    ~output[1].ok

-----------------------------------------------------------------------------
(* C24: normalizeKeystroke(keystroke, layout) of src/src/keyboard.ts on    *)
(* conforming keystrokes and on keystrokes without a primary key.          *)

\* The modifier a token names on the platform, "" when it names none.
ModifierOf(token, mac) ==
  IF token = "Accel" THEN (IF mac THEN "Cmd" ELSE "Ctrl")
  ELSE IF token \in {"Alt", "Cmd", "Ctrl", "Shift"} THEN token
  ELSE ""

\* The tokens are distinct modifiers of the platform.
DistinctModifiers(T, mac) ==
  /\ \A i \in 1..Len(T) : ModifierOf(T[i], mac) # ""
  /\ \A i \in 1..Len(T) : ModifierOf(T[i], mac) = "Cmd" => mac
  /\ \A i, j \in 1..Len(T) :
       i # j => ModifierOf(T[i], mac) # ModifierOf(T[j], mac)

\* Distinct modifiers followed by exactly one keycap valid for the layout.
Conforming(T, layout, mac) ==
  /\ Len(T) > 0
  /\ DistinctModifiers(SubSeq(T, 1, Len(T) - 1), mac)
  /\ T[Len(T)] \in layout
  /\ ModifierOf(T[Len(T)], mac) = ""

\* The modifiers of the set S in the order Cmd, Ctrl, Alt, Shift, each
\* followed by a space, then the keycap.
InFixedOrder(S, keycap) ==
  (IF "Cmd" \in S THEN "Cmd " ELSE "")
  \o (IF "Ctrl" \in S THEN "Ctrl " ELSE "")
  \o (IF "Alt" \in S THEN "Alt " ELSE "")
  \o (IF "Shift" \in S THEN "Shift " ELSE "")
  \o keycap

\* C24: a conforming keystroke is returned with its modifiers in the order
\* Cmd, Ctrl, Alt, Shift before its keycap, and the error 'primary key not
\* specified' is thrown exactly for the keystrokes made of modifiers only.
C24_LayoutNormalize ==
  lastOp = "normalize" =>
    LET T == splitWhitespace(input.keystroke)
        mac == input.IS_MAC
        r == output[1]
    IN  /\ Conforming(T, input.layout, mac) =>
             /\ r.err = ""
             /\ r.value =
                  InFixedOrder({ ModifierOf(T[i], mac) : i \in 1..(Len(T) - 1) },
                               T[Len(T)])
        /\ DistinctModifiers(T, mac) => r.err = "primary key not specified"
        /\ r.err = "primary key not specified" =>
             \A i \in 1..Len(T) : ModifierOf(T[i], mac) # ""

-----------------------------------------------------------------------------
(* C25: two KeymapManager instances do not interfere.                      *)

\* The ex bindings the add calls of a manager created.
ObjsOfHandles(hs) == UNION { ObjsOf(hs[h]) : h \in 1..Len(hs) }

\* C25: an add, dispose, keydown or timer fire on the manager addressed
\* leaves the registry, the buffer, the remembered exact set and the timer
\* of the second manager as they were, the timeout the second manager has
\* armed stays outstanding, and the handlers called are those of bindings
\* registered on the manager addressed.
C25_NoInterference ==
  [][ lastOp' # "address" =>
        /\ other' = other
        /\ other._timer # 0 =>
             (other._timer \in scheduled <=> other._timer \in scheduled')
        /\ \A i \in 1..Len(invoked') :
             /\ invoked'[i] \in ObjsOfHandles(handles')
             /\ invoked'[i] \notin ObjsOfHandles(other.handles) ]_vars

\* The second manager waits on the chord "a b", its timeout armed, while
\* the keystroke "a" on the manager addressed has called the handler of
\* its own binding "a".
C25_Witness ==
  /\ other # <<>>
  /\ other._sequence = <<"a">>
  /\ other._timer # 0
  /\ other._timer \in scheduled
  /\ lastOp = "keydown"
  /\ path = "exact"
  /\ typed = <<"a">>
  /\ Len(invoked) = 1
  /\ Len(other._bindings) = 1

-----------------------------------------------------------------------------
(* C26: the candidates of one dispatch are a snapshot taken when the       *)
(* sequence was matched.                                                   *)

\* The calls a walk over the candidates makes: those of the walk order up
\* to and including the first handler that returns true.
CallsOver(cands, event) ==
  LET full == WalkOrder(cands, event.target, event.currentTarget)
      stops == { k \in 1..Len(full) : full[k].handler = "true" }
      last == IF stops = {} THEN Len(full)
              ELSE CHOOSE k \in stops : \A l \in stops : k <= l
  IN  [k \in 1..last |-> full[k]]

\* C26: whatever the handlers add to or remove from the registry while the
\* dispatch runs, the dispatch calls exactly the handlers a walk over the
\* candidates matched beforehand calls, and runs to its end; the bindings
\* added and removed are in, respectively out of, the registry afterwards
\* and the next keystroke is matched against that registry.
C26_SnapshotDispatch ==
  /\ lastOp = "dispatch" =>
       LET snapshot == _exactData[1].exact
           calls == CallsOver(snapshot, _exactData[1].event)
           adds == Cardinality({ k \in 1..Len(calls) : calls[k].handler = "add" })
           disposed == \E k \in 1..Len(calls) : calls[k].handler = "dispose"
       IN  /\ invoked = [k \in 1..Len(calls) |-> calls[k].obj]
           /\ Len(_bindings) = (IF disposed THEN 0 ELSE Len(snapshot)) + adds
           /\ disposed => ObjsOf(_bindings) \cap ObjsOf(snapshot) = {}
  /\ lastOp = "matched" =>
       ObjsOf(_exactData[1].exact) = ObjsOf(_bindings)

\* At the target the handler of a candidate disposed the candidates and the
\* handler of another added a binding; the walk went on to the parent and
\* called the handler of a disposed candidate there, and not the handler of
\* the binding added.
C26_Witness ==
  /\ lastOp = "dispatch"
  /\ _exactData[1].event.target = 2
  /\ _exactData[1].event.currentTarget = 1
  /\ Len(_exactData[1].exact) = 3
  /\ _exactData[1].exact[1].handler = "dispose"
  /\ _exactData[1].exact[1].selector = "*"
  /\ _exactData[1].exact[2].handler = "add"
  /\ _exactData[1].exact[2].selector = "*"
  /\ _exactData[1].exact[3].handler = "true"
  /\ _exactData[1].exact[3].selector = "#out"
  /\ invoked = <<2, 1, 3>>
  /\ ObjsOf(_bindings) = {4}

-----------------------------------------------------------------------------
(* C27: the bindings of a disposed handle are out of reach of the          *)
(* keystrokes processed afterwards.                                        *)

\* The disposable of the h-th add call has been disposed: the bindings it
\* registered are no longer registered.
Disposed(h) == handles[h] # <<>> /\ NoneRegistered(handles[h])

\* The buffer matches, exactly or as a prefix, a binding of a disposed
\* handle and no registered binding.
OnlyDisposedMatch(buf) ==
  /\ \E h \in 1..Len(handles) :
       /\ Disposed(h)
       /\ \E i \in 1..Len(handles[h]) : IsPrefix(buf, handles[h][i].sequence)
  /\ ~SomeExact(buf)
  /\ ~SomePartial(buf)

\* C27: dispose takes the bindings of its handle out of the registry, where
\* no later operation puts them back; a keystroke processed afterwards
\* calls the handler of none of them, and when only they match the buffer
\* the pending state is cleared and the event is not consumed.
C27_DisposedOutOfReach ==
  [][ /\ lastOp' = "dispose" =>
           \A h \in 1..Len(handles) :
             dispose(h) => ObjsOf(handles[h]) \cap ObjsOf(_bindings') = {}
      /\ \A h \in 1..Len(handles) :
           Disposed(h) =>
             /\ ObjsOf(handles[h]) \cap ObjsOf(_bindings') = {}
             /\ lastOp' = "keydown" =>
                  \A i \in 1..Len(invoked') :
                    invoked'[i] \notin ObjsOf(handles[h])
      /\ (lastOp' = "keydown" /\ typed' # <<>> /\ OnlyDisposedMatch(typed')) =>
           /\ _sequence' = <<>> /\ _exactData' = <<>> /\ _timer' = 0
           /\ scheduled' = {}
           /\ invoked' = <<>>
           /\ ~prevented' ]_vars

\* The keystroke "a" has been processed after the two handles whose
\* bindings it matched were disposed.
C27_Witness ==
  /\ lastOp = "keydown"
  /\ path = "none"
  /\ typed = <<"a">>
  /\ OnlyDisposedMatch(typed)
  /\ Len(handles) = 2
  /\ Disposed(1)
  /\ Disposed(2)

-----------------------------------------------------------------------------
(* C28: a keydown event whose key code has no entry in the key table       *)
(* makes processKeydownEvent return early.                                 *)

\* C28: whatever modifiers are held, the keydown of a key code outside the
\* key table leaves the buffer, the remembered exact set and the timer as
\* they were and calls no handler.
C28_InvalidKeyReturnsEarly ==
  [][ lastOp' = "keydown" =>
        \A ev \in HeldEvents :
          (ev.keyCode \notin DOMAIN KEY_CODE_MAP /\ processKeydownEvent(ev)) =>
            /\ UNCHANGED <<_sequence, _exactData, _timer, scheduled>>
            /\ invoked' = <<>> ]_vars

-----------------------------------------------------------------------------
(* C29: in the manager of src/unnamed/part_004 the keydown of a modifier   *)
(* key changes nothing, so that a chord whose keystrokes share a modifier  *)
(* completes when the modifier key is pressed between them.                *)

\* C29: the keydown of a modifier key calls no handler and leaves the
\* pending keystrokes, the remembered exact set and the timer as they were;
\* the keystroke that follows is matched with the keystrokes pending before
\* the modifier key was pressed.
C29_ModifierKeyIgnored ==
  [][ /\ lastOp' = "keydown" =>
           \A ev \in ChordEvents :
             (ev.keyCode \in ModifierKeyCodes /\ processKeydownEventVeto(ev)) =>
               /\ UNCHANGED <<_sequence, _exactData, _timer, scheduled,
                              _bindings>>
               /\ invoked' = <<>>
      /\ (lastOp' = "keydown" /\ path = "modifier"
            /\ _sequence = <<"ctrl+a">>) =>
           \A ev \in ChordEvents :
             (ev.keyCode = 66 /\ processKeydownEventVeto(ev)) =>
               /\ typed' = <<"ctrl+a", "ctrl+b">>
               /\ ((\E i \in 1..Len(_bindings) :
                       _bindings[i].sequence = typed') =>
                     path' = "exact")
               /\ ((\E i \in 1..Len(_bindings) :
                       /\ _bindings[i].sequence = typed'
                       /\ _bindings[i].selector = "*") =>
                     (invoked' # <<>> /\ prevented')) ]_vars

\* The ctrl key has been pressed while the chord "ctrl+a ctrl+b" was
\* pending after its first keystroke: the keystroke is still pending and
\* the timer still armed.
C29_Witness ==
  /\ lastOp = "keydown"
  /\ path = "modifier"
  /\ _sequence = <<"ctrl+a">>
  /\ _timer # 0
  /\ _timer \in scheduled
  /\ \E i \in 1..Len(_bindings) :
       _bindings[i].sequence = <<"ctrl+a", "ctrl+b">>

-----------------------------------------------------------------------------
(* C30: in _evtKeyDown of src/src/index.ts a keystroke that matches no     *)
(* registered sequence, neither exactly nor as a prefix, clears the        *)
(* pending chord prefix, and a binding of a single keystroke pressed right *)
(* after such a keystroke emits its command.                               *)

\* The keystrokes of a registered binding, each as normaliseModifiers
\* writes it.
KeystrokesOf(bin) ==
  [i \in 1..Len(bin.keys) |-> normaliseModifiers(<< bin.keys[i] >>)]

Registered ==
  UNION { { handles[i][j] : j \in 1..Len(handles[i]) } : i \in 1..Len(handles) }

MatchesSomeSequence(buf) ==
  \E bin \in Registered :
    /\ Len(buf) <= Len(KeystrokesOf(bin))
    /\ SubSeq(KeystrokesOf(bin), 1, Len(buf)) = buf

BoundAlone(keystroke) ==
  { bin \in Registered : /\ KeystrokesOf(bin) = << keystroke >>
                         /\ bin.selector = "" }

C30_NoMatchClearsPrefix ==
  [][ /\ lastOp' = "keydown" /\ path' \in {"emit", "prefix"}
      =>
      /\ ~MatchesSomeSequence(typed') => _timeoutState' = ""
      /\ ( /\ lastOp = "keydown" /\ path = "prefix"
           /\ ~MatchesSomeSequence(typed) )
         => \A bin \in BoundAlone(typed'[Len(typed')]) :
              \E i \in 1..Len(invoked') : invoked'[i] = bin.command
    ]_vars

-----------------------------------------------------------------------------
(* C31: in the manager of src/src/index.ts, after any registerBindings    *)
(* calls and disposals of the disposables returned, hasShortcut(v, scope)  *)
(* is true iff a binding registered and not disposed has that scope and    *)
(* keys of the normalised form of v; and no disposal throws.               *)

\* The values hasShortcut is asked about.
ShortcutValues ==
  { << <<"Ctrl", "A">> >>, << <<"ctrl", "a">> >>, << <<"ctrl", "b">> >>,
    << <<"ctrl", "b">>, <<"ctrl", "a">> >> }

scopeOf(bin) == IF bin.selector = "" THEN "*" ELSE bin.selector

-----------------------------------------------------------------------------
(* C32: isDisposed of the manager of src/src/index.ts is false before      *)
(* dispose() is called and true in every state after it was called.  The   *)
(* manager listens to keydown events from its construction until dispose.  *)

C32_IsDisposedAfterDispose == isDisposed <=> ~listening

-----------------------------------------------------------------------------
(* C33: normaliseModifiers of src/src/index.ts is idempotent on every key  *)
(* sequence made of keystrokes with or without modifiers: normalising its  *)
(* result gives the result again.                                          *)

\* A keystroke: distinct modifiers, then a key.
IsKeystroke(tokens) ==
  /\ Len(tokens) >= 1
  /\ tokens[Len(tokens)] # ""
  /\ modifierIndex(tokens[Len(tokens)]) = -1
  /\ \A j \in 1..(Len(tokens) - 1) : modifierIndex(tokens[j]) # -1
  /\ \A j, k \in 1..(Len(tokens) - 1) : tokens[j] = tokens[k] => j = k

\* A key sequence: keystrokes with one space between them.
IsKeySequence(text) ==
  \A i \in 1..Len(sequencesOf(text)) : IsKeystroke(sequencesOf(text)[i])

C33_NormaliseIdempotent ==
  (lastOp = "renormalise" /\ IsKeySequence(input.keys))
    => join(output[2]) = join(output[1])

-----------------------------------------------------------------------------
(* C34: whenever KeymapManager of src/src/manager.ts has invoked a handler, *)
(* from processKeydownEvent or from the timer callback, its pending state   *)
(* was reset before the dispatch: the buffer is empty, no exact set is      *)
(* remembered and no timer is armed.                                        *)

-----------------------------------------------------------------------------
(* C35: between operations of KeymapManager of src/src/manager.ts the       *)
(* buffer is non-empty iff the timer is armed, and an exact set is          *)
(* remembered only while the timer is armed.                                *)

Armed == _timer # 0 /\ _timer \in scheduled

C35_IdleOrPending ==
  /\ _sequence # <<>> <=> Armed
  /\ _exactData # <<>> => Armed
  /\ ~Armed => Idle

\* Pending with a remembered exact set and a live timer.
C35_Witness == _sequence # <<>> /\ _exactData # <<>> /\ Armed

-----------------------------------------------------------------------------
(* C36: whenever KeymapManager of src/src/manager.ts remembers an exact     *)
(* set, the sequence of each binding of the set is a non-empty prefix of    *)
(* the keystroke buffer.                                                    *)

C36_ExactIsPrefixOfBuffer ==
  _exactData # <<>> =>
    \A i \in 1..Len(_exactData[1].exact) :
      LET sequence == _exactData[1].exact[i].sequence IN
      /\ Len(sequence) >= 1
      /\ Len(sequence) <= Len(_sequence)
      /\ SubSeq(_sequence, 1, Len(sequence)) = sequence

\* The buffer has grown since the exact set was remembered.
C36_Witness ==
  /\ _exactData # <<>>
  /\ Len(_exactData[1].exact) >= 1
  /\ Len(_sequence) > Len(_exactData[1].exact[1].sequence)

-----------------------------------------------------------------------------
(* C37: for a key of the key table and a set of held modifiers, the string *)
(* keystrokeForKeydownEvent makes of the event equals normalizeKeystroke   *)
(* of a valid text exactly when the text names the same modifiers, in any  *)
(* order and letter case, and the same key.                                *)

\* The modifiers held during a keydown event.
Held(event) ==
  (IF event.ctrlKey THEN {"ctrl"} ELSE {})
  \cup (IF event.altKey THEN {"alt"} ELSE {})
  \cup (IF event.shiftKey THEN {"shift"} ELSE {})
  \cup (IF event.metaKey THEN {"meta"} ELSE {})

C37_EventMatchesText ==
  (lastOp = "event" /\ output[1].ok) =>
    ( output[2] = output[1].value
      <=> /\ NamedModifiers(input.keystroke) = Held(input.event)
          /\ NamedKey(input.keystroke) = keyForKeyCode(input.event.keyCode) )

\* The text names the held modifiers in the other order and the key in
\* upper case.
C37_Witness ==
  /\ lastOp = "event"
  /\ input.keystroke = <<"alt", "-", "Ctrl", "-", "A">>
  /\ output[1].ok
  /\ output[2] = output[1].value

-----------------------------------------------------------------------------
(* C38: processKeydownEvent of src/src/manager.ts classifies a keystroke by *)
(* the sequences of the registered bindings alone: when some binding        *)
(* strictly extends the buffer the event is consumed and the timer armed,   *)
(* whatever the selectors and the target of the event; selectors are read   *)
(* only when bindings are dispatched.                                       *)

C38_MatchingIgnoresScope ==
  [][ (lastOp' = "keydown" /\ typed' # <<>>) =>
      /\ SomePartial(typed') =>
           /\ path' = "partial"
           /\ prevented'
           /\ _timer' # 0 /\ _timer' \in scheduled'
      /\ (~SomePartial(typed') /\ SomeExact(typed')) => path' = "exact"
      /\ (~SomePartial(typed') /\ ~SomeExact(typed')) => path' = "none"
    ]_vars

\* The keystroke was consumed and the timer armed although no binding that
\* extends the buffer has a selector matching an element of the chain of
\* the event.
C38_Witness ==
  /\ lastOp = "keydown" /\ path = "partial"
  /\ prevented
  /\ _timer # 0 /\ _timer \in scheduled
  /\ _exactData # <<>>
  /\ \A i \in 1..Len(_bindings) :
       Extends(_bindings[i].sequence, _sequence) =>
         \A elem \in WalkedChain(_exactData[1].event) :
           ~matchesSelector(elem, _bindings[i].selector)

-----------------------------------------------------------------------------
(* C39: in one dispatch of the handler-veto dispatchBindings of            *)
(* src/unnamed/part_004 in which every handler invoked returns false, each *)
(* candidate is invoked once for every element of the walked chain that    *)
(* its selector matches, and the event is left unconsumed.                 *)

\* The number of calls of the handler of the ex binding obj.
CallsOf(obj) == Cardinality({ k \in 1..Len(invoked) : invoked[k] = obj })

AllInvokedReturnFalse ==
  \A k \in 1..Len(invoked) :
    \A n \in 1..Len(_exactData[1].exact) :
      _exactData[1].exact[n].obj = invoked[k]
        => _exactData[1].exact[n].handler = "false"

C39_OncePerMatchingElement ==
  (lastOp = "dispatch" /\ AllInvokedReturnFalse) =>
    /\ ~prevented
    /\ \A n \in 1..Len(_exactData[1].exact) :
         CallsOf(_exactData[1].exact[n].obj)
           = Cardinality({ elem \in WalkedChain(_exactData[1].event) :
                 matchesSelector(elem, _exactData[1].exact[n].selector) })

\* A binding whose selector matches the target and its parent was invoked
\* twice, a binding matching the parent alone once.
C39_Witness ==
  /\ lastOp = "dispatch"
  /\ ~prevented
  /\ Len(_exactData[1].exact) = 2
  /\ invoked = <<1, 2, 1>>

-----------------------------------------------------------------------------
(* C40: for every registry built by add and dispose calls, every candidate *)
(* array taken from it and every element, the binding findBestMatch of     *)
(* src/src/manager.ts picks is the first of the matches as                 *)
(* src/unnamed/part_000 sorts them with exBindingCmp.                      *)

\* The arrays of ex bindings of the registry, in registry order.
RECURSIVE Pick(_, _)
Pick(array, keep) ==
  IF array = <<>> THEN <<>>
  ELSE (IF Len(array) \in keep THEN Pick(SubSeq(array, 1, Len(array) - 1), keep)
                                    \o << array[Len(array)] >>
        ELSE Pick(SubSeq(array, 1, Len(array) - 1), keep))

CandidateArrays ==
  { Pick(_bindings, keep) : keep \in SUBSET (1..Len(_bindings)) }

C40_StrategiesAgree ==
  \A cands \in CandidateArrays : \A elem \in Elements :
    LET best == findBestMatch(cands, elem)
        sorted == findSelectorMatchesCmp(cands, elem)
    IN  /\ best = <<>> <=> sorted = <<>>
        /\ best # <<>> => best[1].obj = sorted[1].obj

\* After a disposal the registry holds two bindings of one specificity
\* that match the same element: the one registered later is picked.
C40_Witness ==
  /\ lastOp = "dispose"
  /\ Len(_bindings) >= 2
  /\ _bindings[1].specificity = _bindings[2].specificity
  /\ matchesSelector(1, _bindings[1].selector)
  /\ matchesSelector(1, _bindings[2].selector)
  /\ findBestMatch(_bindings, 1)[1].obj # _bindings[1].obj

====
